---- MODULE Spec2Model ----
(***************************************************************************)
(* Model of the admin dashboard's member cache (js/data-store.js), of its   *)
(* rate-limit-aware GitHub HTTP client and GitHub fetchers (js/utils.js)   *)
(* of its aggregation functions (js/analytics.js, dashboard script) and of  *)
(* its authentication module.                                               *)
(***************************************************************************)
EXTENDS Integers, Sequences, FiniteSets, TLC

VARIABLES
    members,        \* data-store.js: let members
    lastFetchTime,  \* data-store.js: let lastFetchTime
    ls,             \* localStorage: the two keys of the member cache
    denied,         \* localStorage access throws (storage disabled for the page)
    now,            \* Date.now(), in milliseconds
    calls,          \* loadMembersData invocations, suspended at await getDocs or not
    ev,             \* the last completed public operation and what it returned
    hist,           \* the last operation that wrote or removed the persisted keys
    rateLimitReset,      \* utils.js: let rateLimitReset (0 stands for null)
    rateLimitRemaining,  \* utils.js: let rateLimitRemaining ({} stands for null)
    hasToken,            \* GITHUB_TOKEN was substituted at build time
    warningShown,        \* window._githubTokenWarningShown
    warnings,            \* how often the missing-token warning was logged
    started,             \* githubApiRequest calls made so far
    reqs,                \* githubApiRequest invocations and where each stands
    hev,                 \* the step of the HTTP client that just ran
    githubUserCache,     \* utils.js: let githubUserCache
    fc,                  \* the fetcher invocation in progress, if any
    fev,                 \* the step of a fetcher that just ran
    known,               \* per handle, what the last profile response since the
                         \* last clearGitHubCache established
    agg,                 \* the aggregation function applied and its input
    auth                 \* the authentication module and the Firebase session

storeVars == <<members, lastFetchTime, ls, denied, calls, ev, hist>>

httpVars == <<rateLimitReset, rateLimitRemaining, hasToken, warningShown,
              warnings, started, reqs, hev>>

fetchVars == <<githubUserCache, fc, fev, known>>

vars == <<members, lastFetchTime, ls, denied, now, calls, ev, hist,
          rateLimitReset, rateLimitRemaining, hasToken, warningShown,
          warnings, started, reqs, hev, githubUserCache, fc, fev, known, agg,
          auth>>

-----------------------------------------------------------------------------
(* Bounds *)

MaxId == 1           \* document ids 1..MaxId
MaxCalls == 1        \* loadMembersData invocations in flight at once
MaxProcs == 1        \* githubApiRequest invocations in flight at once
MaxApiCalls == 1     \* githubApiRequest invocations per session
MaxWarnProcs == 2    \* githubApiRequest invocations in flight at once (SpecWarn)
MaxWarnCalls == 2    \* githubApiRequest invocations per session (SpecWarn)
MaxHandles == 2      \* GitHub account handles 1..MaxHandles
MaxProfile == 2      \* versions 1..MaxProfile of an account's profile on the server
MaxListing == 21     \* repositories in the answer to a listing request
MaxDate == 2         \* author dates 1..MaxDate of commits
MaxBody == 2         \* commits in the answer to a commits request
MaxDays == 3         \* days 1..MaxDays of a PR trend
MaxTrendMembers == 2 \* members passed to getPRTrendsData
MaxEdge == 1         \* members before, and after, a block of equal members
MaxRepoMembers == 2  \* members passed to getRepositoryData, getActivityStats
MaxLangItems == 2    \* entries of one member's githubActivity.languages
MaxRefreshes == 2    \* loadMembersData(true) invocations in flight at once (SpecRace)

-----------------------------------------------------------------------------
(* Values *)

Ids == 1..MaxId

\* A field of a document is either representable in JSON ("plain") or a
\* native object such as a Firestore Timestamp, a Date or NaN ("native"),
\* which JSON.stringify writes as something else ("degraded").
DocFields == {"plain", "native"}

Member(i, f) == [id |-> i, f |-> f]

RECURSIVE AscendingSeqs(_)
\* the sequences of documents with strictly ascending ids starting at or above lo
AscendingSeqs(lo) ==
    IF lo > MaxId THEN {<<>>}
    ELSE AscendingSeqs(lo + 1) \cup
         { <<Member(lo, f)>> \o rest : f \in DocFields, rest \in AscendingSeqs(lo + 1) }

\* What a query of the Members collection can resolve to, and what a caller
\* may hand to setMembers.
Collections == AscendingSeqs(1)

NoItem == [has |-> FALSE, text |-> <<>>]
Item(t) == [has |-> TRUE, text |-> t]

CACHE_KEY == "members_cache"
CACHE_TIMESTAMP_KEY == "members_cache_timestamp"
Keys == {CACHE_KEY, CACHE_TIMESTAMP_KEY}

\* JSON.stringify of the members array: a native value is written in a
\* degraded form (a Timestamp as a plain map, a Date as a string, NaN as null)
JSONstringifyField(f) == IF f = "native" THEN "degraded" ELSE f

JSONstringify(X) ==
    [i \in DOMAIN X |-> [id |-> X[i].id, f |-> JSONstringifyField(X[i].f)]]

\* JSON.parse rebuilds plain objects from the text
JSONparse(t) == [i \in DOMAIN t |-> Member(t[i].id, t[i].f)]

\* timestamp.toString() and parseInt(cachedTimestamp, 10)
NumToString(n) == <<n>>
ParseInt(t) == t[1]

\* !cachedData: getItem returned null. A stored text is never "": the text
\* of the empty array is "[]", that of a timestamp its digits.
Truthy(item) == item.has

\* values returned to callers
RetArr(X) == [kind |-> "array", val |-> X]
RetNull == [kind |-> "null", val |-> <<>>]
RetVoid == [kind |-> "undefined", val |-> <<>>]
RetBool(b) == [kind |-> IF b THEN "true" ELSE "false", val |-> <<>>]
RetThrow == [kind |-> "throw", val |-> <<>>]

-----------------------------------------------------------------------------
(* localStorage *)

BothKeys(lsv) == Truthy(lsv[CACHE_KEY]) /\ Truthy(lsv[CACHE_TIMESTAMP_KEY])

EmptyStorage == [k \in Keys |-> NoItem]

\* localStorage.removeItem of both keys
RemoveBoth(lsv) == [k \in Keys |-> NoItem]

-----------------------------------------------------------------------------
(* loadFromCache: the value it returns and the module state it leaves *)

\* loadFromCache testing the data key alone
LoadFromCacheDataKeyOnly(lsv, den, mem, lft) ==
    IF den
    THEN [ret |-> RetNull, members |-> mem, lastFetchTime |-> lft,
          logs |-> {"Error loading from cache"}]
    ELSE IF ~Truthy(lsv[CACHE_KEY])
    THEN [ret |-> RetNull, members |-> mem, lastFetchTime |-> lft, logs |-> {}]
    ELSE LET parsed == JSONparse(lsv[CACHE_KEY].text) IN
         [ret |-> RetArr(parsed), members |-> parsed,
          lastFetchTime |-> lft, logs |-> {"Loaded members from cache"}]

\* loadFromCache assigning members but returning nothing
LoadFromCacheNoReturn(lsv, den, mem, lft) ==
    IF den
    THEN [ret |-> RetNull, members |-> mem, lastFetchTime |-> lft,
          logs |-> {"Error loading from cache"}]
    ELSE IF ~Truthy(lsv[CACHE_KEY]) \/ ~Truthy(lsv[CACHE_TIMESTAMP_KEY])
    THEN [ret |-> RetNull, members |-> mem, lastFetchTime |-> lft, logs |-> {}]
    ELSE LET parsed == JSONparse(lsv[CACHE_KEY].text) IN
         [ret |-> RetNull, members |-> parsed,
          lastFetchTime |-> ParseInt(lsv[CACHE_TIMESTAMP_KEY].text),
          logs |-> {"Loaded members from cache"}]

LoadFromCache(lsv, den, mem, lft) ==
    IF den
    THEN \* getItem throws: caught, null
         [ret |-> RetNull, members |-> mem, lastFetchTime |-> lft,
          logs |-> {"Error loading from cache"}]
    ELSE IF ~Truthy(lsv[CACHE_KEY]) \/ ~Truthy(lsv[CACHE_TIMESTAMP_KEY])
    THEN [ret |-> RetNull, members |-> mem, lastFetchTime |-> lft, logs |-> {}]
    ELSE LET parsed == JSONparse(lsv[CACHE_KEY].text) IN
         [ret |-> RetArr(parsed), members |-> parsed,
          lastFetchTime |-> ParseInt(lsv[CACHE_TIMESTAMP_KEY].text),
          logs |-> {"Loaded members from cache"}]

\* The places where a write to storage can throw QuotaExceededError.
SaveFailures == {"none", "data", "timestamp"}

\* saveToCache that never writes the timestamp key
SaveToCacheNoTimestamp(lsv, den, lft, t, membersData, fail) ==
    IF den
    THEN [ls |-> lsv, lastFetchTime |-> lft, ok |-> FALSE,
          logs |-> {"Error saving to cache", "Could not clear cache"}]
    ELSE IF fail = "none"
    THEN [ls |-> [lsv EXCEPT ![CACHE_KEY] = Item(JSONstringify(membersData))],
          lastFetchTime |-> t, ok |-> TRUE,
          logs |-> {"Saved members to cache"}]
    ELSE [ls |-> RemoveBoth(lsv), lastFetchTime |-> lft, ok |-> FALSE,
          logs |-> {"Error saving to cache"}]

\* saveToCache whose handler logs the failure and removes nothing
SaveToCacheKeepOnFailure(lsv, den, lft, t, membersData, fail) ==
    IF den
    THEN [ls |-> lsv, lastFetchTime |-> lft, ok |-> FALSE,
          logs |-> {"Error saving to cache", "Could not clear cache"}]
    ELSE IF fail = "none"
    THEN [ls |-> [k \in Keys |->
                    IF k = CACHE_KEY THEN Item(JSONstringify(membersData))
                    ELSE Item(NumToString(t))],
          lastFetchTime |-> t, ok |-> TRUE,
          logs |-> {"Saved members to cache"}]
    ELSE [ls |-> lsv, lastFetchTime |-> lft, ok |-> FALSE,
          logs |-> {"Error saving to cache"}]

\* saveToCache that writes the keys only while the cache is still empty
SaveToCacheOnlyWhenEmpty(lsv, den, lft, t, membersData, fail) ==
    IF den
    THEN [ls |-> lsv, lastFetchTime |-> lft, ok |-> FALSE,
          logs |-> {"Error saving to cache", "Could not clear cache"}]
    ELSE IF fail = "none"
    THEN [ls |-> IF BothKeys(lsv) THEN lsv
                 ELSE [k \in Keys |->
                         IF k = CACHE_KEY THEN Item(JSONstringify(membersData))
                         ELSE Item(NumToString(t))],
          lastFetchTime |-> t, ok |-> TRUE,
          logs |-> {"Saved members to cache"}]
    ELSE [ls |-> RemoveBoth(lsv), lastFetchTime |-> lft, ok |-> FALSE,
          logs |-> {"Error saving to cache"}]

\* saveToCache whose handler removes nothing: the data key written before
\* the timestamp write threw stays
SaveToCacheNoCleanup(lsv, den, lft, t, membersData, fail) ==
    IF den
    THEN [ls |-> lsv, lastFetchTime |-> lft, ok |-> FALSE,
          logs |-> {"Error saving to cache", "Could not clear cache"}]
    ELSE IF fail = "none"
    THEN [ls |-> [k \in Keys |->
                    IF k = CACHE_KEY THEN Item(JSONstringify(membersData))
                    ELSE Item(NumToString(t))],
          lastFetchTime |-> t, ok |-> TRUE,
          logs |-> {"Saved members to cache"}]
    ELSE [ls |-> IF fail = "timestamp"
                 THEN [lsv EXCEPT ![CACHE_KEY] = Item(JSONstringify(membersData))]
                 ELSE lsv,
          lastFetchTime |-> lft, ok |-> FALSE,
          logs |-> {"Error saving to cache"}]

(* saveToCache: the storage and lastFetchTime it leaves. fail names the     *)
(* setItem call that throws, if any.                                        *)
SaveToCache(lsv, den, lft, t, membersData, fail) ==
    IF den
    THEN \* setItem throws, and so does removeItem in the handler
         [ls |-> lsv, lastFetchTime |-> lft, ok |-> FALSE,
          logs |-> {"Error saving to cache", "Could not clear cache"}]
    ELSE IF fail = "none"
    THEN [ls |-> [k \in Keys |->
                    IF k = CACHE_KEY THEN Item(JSONstringify(membersData))
                    ELSE Item(NumToString(t))],
          lastFetchTime |-> t, ok |-> TRUE,
          logs |-> {"Saved members to cache"}]
    ELSE \* the first or the second setItem threw: both keys are removed
         [ls |-> RemoveBoth(lsv), lastFetchTime |-> lft, ok |-> FALSE,
          logs |-> {"Error saving to cache"}]

-----------------------------------------------------------------------------
(* Events: what the operation that just ran did and returned *)

\* an invocation of loadMembersData. Where watch is set, its overlap with
\* other invocations is recorded: alone says that no other invocation was
\* awaiting its query when this one started, overtaken that the query of
\* another invocation resolved while this one was awaiting its own
NoCall == [pc |-> "idle", skip |-> FALSE, hadKeys |-> FALSE, pre |-> "none",
           watch |-> FALSE, alone |-> FALSE, overtaken |-> FALSE]

Watched == [NoCall EXCEPT !.watch = TRUE]

EvNone == [op |-> "none", skip |-> FALSE, hadKeys |-> FALSE, queried |-> FALSE,
           qfailed |-> FALSE, saveOk |-> TRUE, ret |-> RetVoid, logs |-> {},
           pre |-> "none", alone |-> FALSE, overtaken |-> FALSE]

HistNone == [op |-> "none", arg |-> <<>>, ok |-> FALSE]

-----------------------------------------------------------------------------
(* Operations of the data store *)

\* setMembers(newMembers)
SetMembers(newMembers, fail) ==
    LET s == SaveToCache(ls, denied, lastFetchTime, now, newMembers, fail) IN
    /\ members' = newMembers
    /\ ls' = s.ls
    /\ lastFetchTime' = s.lastFetchTime
    /\ ev' = [EvNone EXCEPT !.op = "set", !.saveOk = s.ok, !.logs = s.logs]
    /\ hist' = [op |-> "set", arg |-> newMembers, ok |-> s.ok]
    /\ UNCHANGED <<denied, now, calls, httpVars, fetchVars, agg, auth>>

\* clearMembersCache()
ClearMembersCache ==
    /\ ls' = IF denied THEN ls ELSE RemoveBoth(ls)
    /\ ev' = [EvNone EXCEPT !.op = "clear",
                !.logs = IF denied THEN {"Error clearing cache"}
                         ELSE {"Cleared members cache"}]
    /\ hist' = [op |-> "clear", arg |-> <<>>, ok |-> ~denied]
    /\ UNCHANGED <<members, lastFetchTime, denied, now, calls, httpVars, fetchVars, agg, auth>>

\* isCacheFresh(): no try/catch around the two getItem calls
IsCacheFresh ==
    /\ ev' = [EvNone EXCEPT !.op = "isCacheFresh",
                !.ret = IF denied THEN RetThrow ELSE RetBool(BothKeys(ls))]
    /\ UNCHANGED <<members, lastFetchTime, ls, denied, now, calls, hist, httpVars, fetchVars, agg, auth>>

\* getMembers()
GetMembers ==
    /\ ev' = [EvNone EXCEPT !.op = "getMembers", !.ret = RetArr(members)]
    /\ UNCHANGED <<members, lastFetchTime, ls, denied, now, calls, hist, httpVars, fetchVars, agg, auth>>

\* the cache is consulted whatever skipCache says
UseCacheIgnoringSkip(skipCache, cached) == cached.kind = "array"

\* if (!skipCache) { const cached = loadFromCache(); if (cached) return cached; }
UseCache(skipCache, cached) == ~skipCache /\ cached.kind = "array"

(* loadMembersData(skipCache), up to its return on a cache hit or up to     *)
(* await getDocs(membersRef)                                                *)
LoadMembersDataStart(c, skipCache) ==
    /\ calls[c].pc = "idle"
    /\ LET r == LoadFromCache(ls, denied, members, lastFetchTime)
           hit == UseCache(skipCache, r.ret)
           had == ~denied /\ BothKeys(ls)
       IN
       IF hit
       THEN /\ members' = r.members
            /\ lastFetchTime' = r.lastFetchTime
            /\ ev' = [EvNone EXCEPT !.op = "load", !.skip = skipCache,
                        !.hadKeys = had, !.ret = r.ret,
                        !.logs = r.logs \cup {"Using cached members data"},
                        !.pre = hist.op]
            /\ UNCHANGED calls
       ELSE /\ calls' = [calls EXCEPT ![c] =
                           [pc |-> "await", skip |-> skipCache, hadKeys |-> had,
                            pre |-> hist.op, watch |-> calls[c].watch,
                            alone |-> /\ calls[c].watch
                                      /\ \A k \in DOMAIN calls : calls[k].pc = "idle",
                            overtaken |-> FALSE]]
            /\ ev' = [EvNone EXCEPT !.op = "getDocs", !.skip = skipCache,
                        !.hadKeys = had, !.queried = TRUE,
                        !.logs = (IF skipCache THEN {} ELSE r.logs)
                                 \cup {"Fetching members from Firebase"},
                        !.pre = hist.op]
            /\ UNCHANGED <<members, lastFetchTime>>
    /\ UNCHANGED <<ls, denied, now, hist, httpVars, fetchVars, agg, auth>>

\* snapshot.docs.map(doc => ({ id: doc.id, ...doc.data() }))
DocsToMembers(docs) == [i \in DOMAIN docs |-> Member(docs[i].id, docs[i].f)]

\* loadMembersData from the point where getDocs resolves
GetDocsResolve(c, docs, fail) ==
    /\ calls[c].pc = "await"
    /\ LET fetched == DocsToMembers(docs)
           s == SaveToCache(ls, denied, lastFetchTime, now, fetched, fail)
       IN
       /\ members' = fetched
       /\ ls' = s.ls
       /\ lastFetchTime' = s.lastFetchTime
       /\ ev' = [EvNone EXCEPT !.op = "load", !.skip = calls[c].skip,
                   !.hadKeys = calls[c].hadKeys, !.queried = TRUE,
                   !.saveOk = s.ok, !.ret = RetArr(fetched),
                   !.logs = s.logs, !.pre = calls[c].pre,
                   !.alone = calls[c].alone, !.overtaken = calls[c].overtaken]
       /\ hist' = [op |-> "load", arg |-> <<>>, ok |-> s.ok]
    /\ calls' = [k \in DOMAIN calls |->
                    IF k = c THEN [NoCall EXCEPT !.watch = calls[c].watch]
                    ELSE IF calls[k].pc = "await" /\ calls[k].watch
                    THEN [calls[k] EXCEPT !.overtaken = TRUE]
                    ELSE calls[k]]
    /\ UNCHANGED <<denied, now, httpVars, fetchVars, agg, auth>>

\* loadMembersData from the point where getDocs rejects (the catch block)
GetDocsReject(c) ==
    /\ calls[c].pc = "await"
    /\ LET r == LoadFromCache(ls, denied, members, lastFetchTime)
           hit == r.ret.kind = "array"
       IN
       /\ members' = IF hit THEN r.members ELSE <<>>
       /\ lastFetchTime' = r.lastFetchTime
       /\ ev' = [EvNone EXCEPT !.op = "load", !.skip = calls[c].skip,
                   !.hadKeys = calls[c].hadKeys, !.queried = TRUE,
                   !.qfailed = TRUE,
                   !.ret = IF hit THEN r.ret ELSE RetArr(<<>>),
                   !.logs = r.logs \cup {"Error loading members"}
                            \cup (IF hit THEN {"Using existing cache due to error"}
                                  ELSE {}),
                   !.pre = calls[c].pre,
                   !.alone = calls[c].alone, !.overtaken = calls[c].overtaken]
    /\ calls' = [calls EXCEPT ![c] = [NoCall EXCEPT !.watch = calls[c].watch]]
    /\ UNCHANGED <<ls, denied, now, hist, httpVars, fetchVars, agg, auth>>

(* Environment of the data store *)

\* one of the two keys is removed from outside the module (another script
\* of the origin, the user's developer tools)
ExternalRemoveItem(k) ==
    /\ ~denied
    /\ ls[k].has
    /\ ls' = [ls EXCEPT ![k] = NoItem]
    /\ ev' = [EvNone EXCEPT !.op = "external"]
    /\ hist' = [op |-> "external", arg |-> <<>>, ok |-> TRUE]
    /\ UNCHANGED <<members, lastFetchTime, denied, now, calls, httpVars, fetchVars, agg, auth>>

-----------------------------------------------------------------------------
(* The GitHub HTTP client *)

\* githubApiRequest(url, options = {}, maxRetries = 3)
DefaultMaxRetries == 3

Max(a, b) == IF a >= b THEN a ELSE b

\* Response headers: {} when headers.get returns null, {v} otherwise.
\* X-RateLimit-Remaining carries digits, X-RateLimit-Reset seconds since epoch.
RemainingHeaders == {{}, {"0"}, {"5"}}
Statuses == {200, 403, 404, 429, 500}

\* the X-RateLimit-Reset values a server may send at time t: none, or five
\* seconds ahead
ResetHeaders(t) == {{}, {(t \div 1000) + 5}}

Responses(t) ==
    [status : Statuses, remaining : RemainingHeaders, reset : ResetHeaders(t)]

NoResponse == [status |-> 0, remaining |-> {}, reset |-> {}]

\* parseInt(remaining, 10)
ParseRemaining(text) == IF text = "0" THEN 0 ELSE 5

\* the statuses githubApiRequest treats as throttling
Throttled(resp) ==
    \/ resp.status = 429
    \/ resp.status = 403 /\ resp.remaining = {"0"}

\* handleRateLimit that suspends on a 429 only
HandleRateLimitOn429Only(resp, rlReset, rlRemaining, t) ==
    LET remaining == IF resp.remaining # {}
                     THEN {ParseRemaining(CHOOSE x \in resp.remaining : TRUE)}
                     ELSE rlRemaining
        reset == IF resp.reset # {}
                 THEN (CHOOSE x \in resp.reset : TRUE) * 1000
                 ELSE rlReset
    IN [rateLimitRemaining |-> remaining,
        rateLimitReset |-> reset,
        waits |-> resp.status = 429,
        waitTime |-> IF reset # 0 THEN Max(0, reset - t + 1000) ELSE 60000]

\* the reset header taken as milliseconds
HandleRateLimitResetAsMillis(resp, rlReset, rlRemaining, t) ==
    LET remaining == IF resp.remaining # {}
                     THEN {ParseRemaining(CHOOSE x \in resp.remaining : TRUE)}
                     ELSE rlRemaining
        reset == IF resp.reset # {}
                 THEN CHOOSE x \in resp.reset : TRUE
                 ELSE rlReset
    IN [rateLimitRemaining |-> remaining,
        rateLimitReset |-> reset,
        waits |-> resp.status = 429 \/ remaining = {0},
        waitTime |-> IF reset # 0 THEN Max(0, reset - t + 1000) ELSE 60000]

(* handleRateLimit(response): the module state it leaves, whether it        *)
(* suspends and for how long; t is Date.now()                               *)
HandleRateLimit(resp, rlReset, rlRemaining, t) ==
    LET remaining == IF resp.remaining # {}
                     THEN {ParseRemaining(CHOOSE x \in resp.remaining : TRUE)}
                     ELSE rlRemaining
        reset == IF resp.reset # {}
                 THEN (CHOOSE x \in resp.reset : TRUE) * 1000
                 ELSE rlReset
    IN [rateLimitRemaining |-> remaining,
        rateLimitReset |-> reset,
        waits |-> resp.status = 429 \/ remaining = {0},
        waitTime |-> IF reset # 0 THEN Max(0, reset - t + 1000) ELSE 60000]

\* a retry loop that continues after the last attempt too
RetryAlways(attempt, maxRetries) == attempt < maxRetries

\* if (attempt < maxRetries - 1) continue;
Retry(attempt, maxRetries) == attempt < maxRetries - 1

\* every 403 is taken as a rate limit
IsRateLimit403Any(resp) == resp.status = 403

\* response.status === 403 && headers.get('X-RateLimit-Remaining') === '0'
IsRateLimit403(resp) == resp.status = 403 /\ resp.remaining = {"0"}

NoReq == [pc |-> "idle", attempt |-> 0, nreq |-> 0, nsusp |-> 0,
          nthrottled |-> 0, resp |-> NoResponse, wake |-> 0, retry |-> FALSE,
          ret |-> NoResponse, threw |-> FALSE]

HevNone == [op |-> "none", p |-> 0, waitTime |-> 0]

Procs == 1..MaxProcs

\* the warning of every call made without a token
ShouldWarnEveryCall(tok, shown) == ~tok

\* if (!hasToken) { if (!window._githubTokenWarningShown) ... }
ShouldWarn(tok, shown) == ~tok /\ ~shown

\* githubApiRequest up to its first await fetch(url, ...)
ApiRequestStart(p) ==
    /\ reqs[p].pc = "idle"
    /\ started' = started + 1
    /\ IF ShouldWarn(hasToken, warningShown)
       THEN /\ warningShown' = TRUE
            /\ warnings' = warnings + 1
       ELSE UNCHANGED <<warningShown, warnings>>
    /\ reqs' = [reqs EXCEPT ![p] = [NoReq EXCEPT !.pc = "fetch", !.nreq = 1]]
    /\ hev' = [op |-> "start", p |-> p, waitTime |-> 0]
    /\ UNCHANGED <<storeVars, fetchVars, agg, now, rateLimitReset, rateLimitRemaining, hasToken, auth>>

\* await fetch resolves. Inside the retry loop: the body of one iteration up
\* to its return or to the suspension inside handleRateLimit. After the
\* loop (return fetch(url, ...)): the response is returned as it is.
ApiResponse(p, resp) ==
    /\ reqs[p].pc \in {"fetch", "tail"}
    /\ LET r == reqs[p]
           h == HandleRateLimit(resp, rateLimitReset, rateLimitRemaining, now)
           limited == resp.status = 429 \/ IsRateLimit403(resp)
       IN
       IF limited /\ r.pc = "fetch"
       THEN /\ rateLimitReset' = h.rateLimitReset
            /\ rateLimitRemaining' = h.rateLimitRemaining
            /\ IF h.waits
               THEN /\ reqs' = [reqs EXCEPT ![p] =
                                  [r EXCEPT !.pc = "wait", !.resp = resp,
                                            !.nthrottled = r.nthrottled + 1,
                                            !.nsusp = r.nsusp + 1,
                                            !.wake = now + h.waitTime,
                                            !.retry = Retry(r.attempt, DefaultMaxRetries)]]
                    /\ hev' = [op |-> "suspend", p |-> p, waitTime |-> h.waitTime]
               ELSE /\ reqs' = [reqs EXCEPT ![p] =
                                  [r EXCEPT !.pc = "wait", !.resp = resp,
                                            !.nthrottled = r.nthrottled + 1,
                                            !.wake = now,
                                            !.retry = Retry(r.attempt, DefaultMaxRetries)]]
                    /\ hev' = [op |-> "nosuspend", p |-> p, waitTime |-> 0]
       ELSE /\ reqs' = [reqs EXCEPT ![p] =
                          [r EXCEPT !.pc = "done", !.resp = resp, !.ret = resp]]
            /\ hev' = [op |-> "return", p |-> p, waitTime |-> 0]
            /\ UNCHANGED <<rateLimitReset, rateLimitRemaining>>
    /\ UNCHANGED <<storeVars, fetchVars, agg, now, hasToken, warningShown, warnings, started, auth>>

\* the timer of handleRateLimit fires: the loop continues with the next
\* attempt, falls out to the trailing fetch, or the response is returned
ApiWake(p) ==
    /\ reqs[p].pc = "wait"
    /\ now' = Max(now, reqs[p].wake)
    /\ LET r == reqs[p] IN
       IF r.retry
       THEN reqs' = [reqs EXCEPT ![p] =
                       [r EXCEPT !.pc = IF r.attempt + 1 < DefaultMaxRetries
                                        THEN "fetch" ELSE "tail",
                                 !.attempt = r.attempt + 1,
                                 !.nreq = r.nreq + 1]]
       ELSE reqs' = [reqs EXCEPT ![p] = [r EXCEPT !.pc = "done", !.ret = r.resp]]
    /\ hev' = [op |-> "wake", p |-> p, waitTime |-> 0]
    /\ UNCHANGED <<storeVars, fetchVars, agg, rateLimitReset, rateLimitRemaining, hasToken,
                   warningShown, warnings, started, auth>>

\* await fetch rejects (network failure): githubApiRequest rejects
ApiNetworkFailure(p) ==
    /\ reqs[p].pc \in {"fetch", "tail"}
    /\ reqs' = [reqs EXCEPT ![p] = [@ EXCEPT !.pc = "done", !.threw = TRUE]]
    /\ hev' = [op |-> "throw", p |-> p, waitTime |-> 0]
    /\ UNCHANGED <<storeVars, fetchVars, agg, now, rateLimitReset, rateLimitRemaining, hasToken,
                   warningShown, warnings, started, auth>>

\* the caller takes the result
ApiRequestEnd(p) ==
    /\ reqs[p].pc = "done"
    /\ reqs' = [reqs EXCEPT ![p] = NoReq]
    /\ hev' = [op |-> "end", p |-> p, waitTime |-> 0]
    /\ UNCHANGED <<storeVars, fetchVars, agg, now, rateLimitReset, rateLimitRemaining, hasToken,
                   warningShown, warnings, started, auth>>

-----------------------------------------------------------------------------
(* The GitHub fetchers *)

Handles == 1..MaxHandles

\* what githubUserCache[h] holds: undefined, null or a userInfo object
CacheUndefined == [kind |-> "undefined", v |-> 0, bio |-> ""]
CacheNull == [kind |-> "null", v |-> 0, bio |-> ""]

\* the body of GET /users/{h}: the account's profile in one of its versions,
\* its bio a text or null
UserData == [v : 1..MaxProfile, bio : {"null", "text"}]

\* the userInfo object built from the body (bio: userData.bio || '')
UserInfo(userData) ==
    [kind |-> "profile", v |-> userData.v,
     bio |-> IF userData.bio = "null" THEN "" ELSE userData.bio]

EmptyCache == [h \in Handles |-> CacheUndefined]

\* a fetcher invocation: its arguments, where it stands (pc), what it has
\* collected and how many githubApiRequest calls it has made (nreq); seen
\* is, per language name, the bytes in the language responses read so far
\* the language names of a response: a name, and a name of blanks only
LangKeys == {"JS", " "}

\* languageBreakdown = {}: 0 stands for a name that is not a key
NoBytes == [k \in LangKeys |-> 0]

FcIdle == [fn |-> "none", pc |-> "idle", h |-> 0, useCache |-> FALSE,
           caller |-> "none", limit |-> 0, page |-> 0, idx |-> 0,
           nrepos |-> 0, repos |-> <<>>, commits |-> <<>>, bytes |-> NoBytes,
           nreq |-> 0, seen |-> NoBytes]

\* what a fetcher returned: null, a userInfo object, a list of repositories,
\* a list of commits or a map from language to bytes
FetchNone == [kind |-> "none", info |-> CacheUndefined, repos |-> <<>>,
              commits |-> <<>>, bytes |-> NoBytes]
FetchInfo(x) == [FetchNone EXCEPT !.kind = x.kind, !.info = x]
FetchNull == FetchInfo(CacheNull)
FetchRepos(list) == [FetchNone EXCEPT !.kind = "repos", !.repos = list]
FetchCommits(list) == [FetchNone EXCEPT !.kind = "commits", !.commits = list]
FetchLangs(b) == [FetchNone EXCEPT !.kind = "langs", !.bytes = b]
FetchPRs == [FetchNone EXCEPT !.kind = "prs"]

\* a fetcher that goes on without a token
TokenMissingNever(tok) == FALSE

\* !GITHUB_TOKEN || GITHUB_TOKEN === 'VITE_GITHUB_TOKEN' ||
\* GITHUB_TOKEN.trim() === ''
TokenMissing(tok) == ~tok

FevNone == [op |-> "none", fn |-> "none", h |-> 0, useCache |-> FALSE,
            cached |-> CacheUndefined, status |-> 0, n |-> 0, link |-> "none",
            more |-> FALSE, limit |-> 0, had |-> <<>>, collected |-> <<>>,
            nreq |-> 0, ret |-> FetchNone, seen |-> NoBytes]

\* the cache test that takes a cached null for no entry
UserCacheHitTruthy(cache, h, useCache) ==
    useCache /\ cache[h].kind = "profile"

\* if (useCache && githubUserCache[githubUsername] !== undefined)
UserCacheHit(cache, h, useCache) ==
    useCache /\ cache[h] # CacheUndefined

(* fetchGitHubUserInfo from the point where githubApiRequest has returned   *)
(* response (status st, body userData): the cache it leaves and its result  *)
UserInfoResult(cache, h, st, userData) ==
    IF st = 200
    THEN [cache |-> [cache EXCEPT ![h] = UserInfo(userData)],
          ret |-> FetchInfo(UserInfo(userData))]
    ELSE IF st = 404
    THEN [cache |-> [cache EXCEPT ![h] = CacheNull], ret |-> FetchNull]
    ELSE [cache |-> cache, ret |-> FetchNull]

\* fetchGitHubUserInfo(h, useCache) up to its return on a cache hit or up to
\* await githubApiRequest: the invocation and the event it leaves
UserInfoCall(h, useCache) ==
    /\ IF UserCacheHit(githubUserCache, h, useCache)
       THEN /\ fc' = FcIdle
            /\ fev' = [FevNone EXCEPT !.op = "return", !.fn = "user", !.h = h,
                          !.useCache = useCache, !.cached = githubUserCache[h],
                          !.ret = FetchInfo(githubUserCache[h])]
       ELSE /\ fc' = [FcIdle EXCEPT !.fn = "user", !.pc = "await", !.h = h,
                         !.useCache = useCache, !.nreq = 1]
            /\ fev' = [FevNone EXCEPT !.op = "request", !.fn = "user", !.h = h,
                          !.useCache = useCache, !.cached = githubUserCache[h],
                          !.nreq = 1]

\* a caller other than the aggregation functions calls fetchGitHubUserInfo
FetchGitHubUserInfo(h, useCache) ==
    /\ fc.pc = "idle"
    /\ UserInfoCall(h, useCache)
    /\ UNCHANGED <<storeVars, httpVars, now, githubUserCache, known, agg, auth>>

\* githubApiRequest returns a response to fetchGitHubUserInfo
UserInfoResponse(st, userData) ==
    /\ fc.fn = "user" /\ fc.pc = "await"
    /\ LET r == UserInfoResult(githubUserCache, fc.h, st, userData) IN
       /\ githubUserCache' = r.cache
       /\ fev' = [FevNone EXCEPT !.op = "return", !.fn = "user", !.h = fc.h,
                     !.useCache = fc.useCache, !.status = st,
                     !.nreq = fc.nreq, !.ret = r.ret]
    /\ known' = IF st = 200 THEN [known EXCEPT ![fc.h] = UserInfo(userData)]
                ELSE IF st = 404 THEN [known EXCEPT ![fc.h] = CacheNull]
                ELSE known
    /\ fc' = FcIdle
    /\ UNCHANGED <<storeVars, httpVars, now, agg, auth>>

\* githubApiRequest or response.json() rejects: the catch block of
\* fetchGitHubUserInfo
UserInfoThrow ==
    /\ fc.fn = "user" /\ fc.pc = "await"
    /\ fev' = [FevNone EXCEPT !.op = "return", !.fn = "user", !.h = fc.h,
                  !.useCache = fc.useCache, !.status = 0,
                  !.nreq = fc.nreq, !.ret = FetchNull]
    /\ fc' = FcIdle
    /\ UNCHANGED <<storeVars, httpVars, now, githubUserCache, known, agg, auth>>

\* clearGitHubCache()
ClearGitHubCache ==
    /\ githubUserCache' = EmptyCache
    /\ known' = EmptyCache
    /\ fev' = [FevNone EXCEPT !.op = "clear"]
    /\ UNCHANGED <<storeVars, httpVars, now, fc, agg, auth>>

(* fetchUserRepositories *)

\* const perPage = 100
PerPage == 100

\* the limit argument (default 100)
RepoLimits == {0, 50, 100, 150, 250}

\* repos.length of a page and its Link header: absent, with rel="next", or
\* present without rel="next"
PageSizes == {0, 30, PerPage}
LinkHeaders == {"none", "next", "last"}

Min(a, b) == IF a <= b THEN a ELSE b

\* allRepos is kept as one entry per page read: the first `taken` items of
\* page `page`, in the order of the page
RECURSIVE RepoCount(_)
RepoCount(list) ==
    IF list = <<>> THEN 0 ELSE list[1].taken + RepoCount(Tail(list))

\* no item of the page is pushed
TakePageNone(list, page, n, limit) ==
    Append(list, [page |-> page, taken |-> 0])

\* every item of the page is pushed
TakePageWhole(list, page, n, limit) ==
    Append(list, [page |-> page, taken |-> n])

\* repos.forEach(repo => { if (allRepos.length < limit) allRepos.push(...) })
TakePage(list, page, n, limit) ==
    Append(list, [page |-> page,
                  taken |-> Min(n, Max(0, limit - RepoCount(list)))])

\* every failure status ends the loop with a break
FailureResultPartial(st, collected) == collected

\* if (!response.ok): 404, 403 and 429 break out of the loop and allRepos is
\* returned; any other status throws, and the catch block returns []
FailureResult(st, collected) ==
    IF st \in {404, 403, 429} THEN collected ELSE <<>>

\* the Link header is not looked at
HasMoreFullPage(n, link) == n = PerPage

\* hasMore = repos.length === perPage &&
\*           (!linkHeader || linkHeader.includes('rel="next"'))
HasMore(n, link) == n = PerPage /\ (link = "none" \/ link = "next")

\* fetchUserRepositories(h, limit) up to its first await githubApiRequest, or
\* to its return when the loop is not entered
FetchUserRepositories(h, limit) ==
    /\ fc.pc = "idle"
    /\ IF 0 < limit
       THEN /\ fc' = [FcIdle EXCEPT !.fn = "repos", !.pc = "await", !.h = h,
                         !.limit = limit, !.page = 1, !.nreq = 1]
            /\ fev' = [FevNone EXCEPT !.op = "request", !.fn = "repos", !.h = h,
                          !.limit = limit, !.nreq = 1]
       ELSE /\ fc' = FcIdle
            /\ fev' = [FevNone EXCEPT !.op = "return", !.fn = "repos", !.h = h,
                          !.limit = limit, !.ret = FetchRepos(<<>>)]
    /\ UNCHANGED <<storeVars, httpVars, now, githubUserCache, known, agg, auth>>

\* githubApiRequest returns the response for one page (status st, n items,
\* Link header link): the rest of the loop body, and the next request or
\* the return
ReposResponse(st, n, link) ==
    /\ fc.fn = "repos" /\ fc.pc = "await"
    /\ LET e == [FevNone EXCEPT !.fn = "repos", !.h = fc.h, !.limit = fc.limit,
                   !.status = st, !.n = n, !.link = link, !.had = fc.repos]
           list == IF n = 0 THEN fc.repos
                   ELSE TakePage(fc.repos, fc.page, n, fc.limit)
           hasMore == n # 0 /\ HasMore(n, link)
       IN
       IF st # 200
       THEN /\ fc' = FcIdle
            /\ fev' = [e EXCEPT !.op = "return", !.n = 0, !.link = "none",
                          !.nreq = fc.nreq,
                          !.ret = FetchRepos(FailureResult(st, fc.repos))]
       ELSE IF hasMore /\ RepoCount(list) < fc.limit
       THEN /\ fc' = [fc EXCEPT !.repos = list, !.page = fc.page + 1,
                                !.nreq = fc.nreq + 1]
            /\ fev' = [e EXCEPT !.op = "page", !.more = TRUE,
                          !.nreq = fc.nreq + 1]
       ELSE /\ fc' = FcIdle
            /\ fev' = [e EXCEPT !.op = "return", !.nreq = fc.nreq,
                          !.ret = FetchRepos(list)]
    /\ UNCHANGED <<storeVars, httpVars, now, githubUserCache, known, agg, auth>>

\* githubApiRequest or response.json() rejects: the catch block of
\* fetchUserRepositories
ReposThrow ==
    /\ fc.fn = "repos" /\ fc.pc = "await"
    /\ fev' = [FevNone EXCEPT !.op = "return", !.fn = "repos", !.h = fc.h,
                  !.limit = fc.limit, !.had = fc.repos, !.nreq = fc.nreq,
                  !.ret = FetchRepos(<<>>)]
    /\ fc' = FcIdle
    /\ UNCHANGED <<storeVars, httpVars, now, githubUserCache, known, agg, auth>>

(* fetchRecentCommits *)

\* repos.slice(0, 10)
MaxCommitRepos == 10

\* the limit argument (default 30)
CommitLimits == {0, 1, 2, 3}

\* a commit is its author date; 0 stands for an entry without
\* commit.author, on which the callback of forEach throws
Dates == 1..MaxDate

RECURSIVE SeqsUpTo(_, _)
SeqsUpTo(S, n) ==
    IF n = 0 THEN {<<>>}
    ELSE LET shorter == SeqsUpTo(S, n - 1) IN
         shorter \cup { Append(q, x) : q \in shorter, x \in S }

CommitBodies == SeqsUpTo(Dates \cup {0}, MaxBody)

\* commits.forEach(commit => { if (allCommits.length < limit) push }): the
\* list it leaves, whether or not the callback threw on the way
RECURSIVE PushCommits(_, _, _)
PushCommits(list, body, limit) ==
    IF body = <<>> THEN list
    ELSE IF Len(list) < limit
    THEN IF Head(body) = 0 THEN list
         ELSE PushCommits(Append(list, Head(body)), Tail(body), limit)
    ELSE PushCommits(list, Tail(body), limit)

\* Array.prototype.sort with (a, b) => new Date(b.date) - new Date(a.date):
\* stable, later dates first
RECURSIVE InsertByDate(_, _)
InsertByDate(sorted, d) ==
    IF sorted = <<>> THEN <<d>>
    ELSE IF Head(sorted) >= d
    THEN <<Head(sorted)>> \o InsertByDate(Tail(sorted), d)
    ELSE <<d>> \o sorted

RECURSIVE SortByDate(_)
SortByDate(list) ==
    IF list = <<>> THEN <<>>
    ELSE InsertByDate(SortByDate(SubSeq(list, 1, Len(list) - 1)),
                      list[Len(list)])

\* slice(0, limit), limit >= 0
Slice(list, limit) == SubSeq(list, 1, Min(Len(list), limit))

\* the loop that goes on however many commits are collected
CommitLoopNoLimit(idx, nrepos, len, limit) ==
    idx <= Min(nrepos, MaxCommitRepos)

\* for (const repo of repos.slice(0, 10)) { if (allCommits.length >= limit)
\* break; ...: a request for repository idx is made
CommitLoop(idx, nrepos, len, limit) ==
    idx <= Min(nrepos, MaxCommitRepos) /\ len < limit

\* fetchRecentCommits(h, limit) up to its return without a token or to
\* await githubApiRequest for the listing
FetchRecentCommits(h, limit) ==
    /\ fc.pc = "idle"
    /\ IF TokenMissing(hasToken)
       THEN /\ fc' = FcIdle
            /\ fev' = [FevNone EXCEPT !.op = "return", !.fn = "commits",
                          !.h = h, !.limit = limit, !.ret = FetchCommits(<<>>)]
       ELSE /\ fc' = [FcIdle EXCEPT !.fn = "commits", !.pc = "listing",
                         !.h = h, !.limit = limit, !.nreq = 1]
            /\ fev' = [FevNone EXCEPT !.op = "request", !.fn = "commits",
                          !.h = h, !.limit = limit, !.nreq = 1]
    /\ UNCHANGED <<storeVars, httpVars, now, githubUserCache, known, agg, auth>>

\* the loop of fetchRecentCommits at repository idx with list collected: the
\* next request, or the sorted and truncated list is returned
CommitsLoopStep(idx, list, st) ==
    IF CommitLoop(idx, fc.nrepos, Len(list), fc.limit)
    THEN /\ fc' = [fc EXCEPT !.pc = "commits", !.idx = idx, !.commits = list,
                             !.nreq = fc.nreq + 1]
         /\ fev' = [FevNone EXCEPT !.op = "request", !.fn = "commits",
                       !.h = fc.h, !.limit = fc.limit, !.status = st,
                       !.collected = list, !.nreq = fc.nreq + 1]
    ELSE /\ fc' = FcIdle
         /\ fev' = [FevNone EXCEPT !.op = "return", !.fn = "commits",
                       !.h = fc.h, !.limit = fc.limit, !.status = st,
                       !.n = fc.nrepos, !.collected = list, !.nreq = fc.nreq,
                       !.ret = FetchCommits(Slice(SortByDate(list), fc.limit))]

\* githubApiRequest returns the listing (status st, nrepos repositories)
CommitsListing(st, nrepos) ==
    /\ fc.fn = "commits" /\ fc.pc = "listing"
    /\ IF st # 200
       THEN /\ fc' = FcIdle
            /\ fev' = [FevNone EXCEPT !.op = "return", !.fn = "commits",
                          !.h = fc.h, !.limit = fc.limit, !.status = st,
                          !.nreq = fc.nreq, !.ret = FetchCommits(<<>>)]
       ELSE IF CommitLoop(1, nrepos, 0, fc.limit)
       THEN /\ fc' = [fc EXCEPT !.pc = "commits", !.idx = 1, !.nrepos = nrepos,
                                !.nreq = fc.nreq + 1]
            /\ fev' = [FevNone EXCEPT !.op = "request", !.fn = "commits",
                          !.h = fc.h, !.limit = fc.limit, !.status = st,
                          !.nreq = fc.nreq + 1]
       ELSE /\ fc' = FcIdle
            /\ fev' = [FevNone EXCEPT !.op = "return", !.fn = "commits",
                          !.h = fc.h, !.limit = fc.limit, !.status = st,
                          !.nreq = fc.nreq, !.ret = FetchCommits(<<>>)]
    /\ UNCHANGED <<storeVars, httpVars, now, githubUserCache, known, agg, auth>>

\* githubApiRequest returns the commits of repository fc.idx (status st,
\* body): the rest of the loop body, the exception of a malformed entry
\* caught inside the loop
CommitsResponse(st, body) ==
    /\ fc.fn = "commits" /\ fc.pc = "commits"
    /\ IF st \in {403, 429}
       THEN /\ fc' = FcIdle
            /\ fev' = [FevNone EXCEPT !.op = "return", !.fn = "commits",
                          !.h = fc.h, !.limit = fc.limit, !.status = st,
                          !.collected = fc.commits, !.nreq = fc.nreq,
                          !.ret = FetchCommits(Slice(SortByDate(fc.commits),
                                                     fc.limit))]
       ELSE CommitsLoopStep(fc.idx + 1,
                            IF st = 200
                            THEN PushCommits(fc.commits, body, fc.limit)
                            ELSE fc.commits,
                            st)
    /\ UNCHANGED <<storeVars, httpVars, now, githubUserCache, known, agg, auth>>

\* githubApiRequest or response.json() rejects for repository fc.idx: the
\* catch block inside the loop
CommitsThrow ==
    /\ fc.fn = "commits" /\ fc.pc = "commits"
    /\ CommitsLoopStep(fc.idx + 1, fc.commits, 0)
    /\ UNCHANGED <<storeVars, httpVars, now, githubUserCache, known, agg, auth>>

\* githubApiRequest or response.json() rejects for the listing: the outer
\* catch block
CommitsListingThrow ==
    /\ fc.fn = "commits" /\ fc.pc = "listing"
    /\ fc' = FcIdle
    /\ fev' = [FevNone EXCEPT !.op = "return", !.fn = "commits", !.h = fc.h,
                  !.limit = fc.limit, !.nreq = fc.nreq,
                  !.ret = FetchCommits(<<>>)]
    /\ UNCHANGED <<storeVars, httpVars, now, githubUserCache, known, agg, auth>>

(* fetchUserLanguages *)

\* repos.slice(0, Math.min(20, repos.length))
MaxLangRepos == 20

\* the body of GET /repos/{r}/languages: bytes per language name, 0 for a
\* name that is not a key
LangBodies == [LangKeys -> 0..1]

\* String.prototype.trim
Trim(k) == IF k = " " THEN "" ELSE k

\* a breakdown that keeps the bytes of the last repository only
AddLanguagesLast(breakdown, body) ==
    [k \in LangKeys |->
        IF k # "" /\ Trim(k) # "" /\ body[k] > 0 THEN body[k] ELSE breakdown[k]]

\* Object.entries(repoLanguages).forEach(([lang, bytes]) => {
\*   if (lang && lang.trim()) languageBreakdown[lang] = (... || 0) + bytes })
AddLanguages(breakdown, body) ==
    [k \in LangKeys |->
        IF k # "" /\ Trim(k) # "" THEN breakdown[k] + body[k] ELSE breakdown[k]]

\* fetchUserLanguages(h) up to its return without a token or to await
\* githubApiRequest for the listing
FetchUserLanguages(h) ==
    /\ fc.pc = "idle"
    /\ IF TokenMissing(hasToken)
       THEN /\ fc' = FcIdle
            /\ fev' = [FevNone EXCEPT !.op = "return", !.fn = "langs", !.h = h,
                          !.ret = FetchLangs(NoBytes)]
       ELSE /\ fc' = [FcIdle EXCEPT !.fn = "langs", !.pc = "listing", !.h = h,
                         !.nreq = 1]
            /\ fev' = [FevNone EXCEPT !.op = "request", !.fn = "langs", !.h = h,
                          !.nreq = 1]
    /\ UNCHANGED <<storeVars, httpVars, now, githubUserCache, known, agg, auth>>

\* the loop of fetchUserLanguages at repository idx: the next request, or
\* languageBreakdown is returned
LangsLoopStep(idx, nrepos, breakdown, st, seen) ==
    IF idx <= Min(MaxLangRepos, nrepos)
    THEN /\ fc' = [fc EXCEPT !.pc = "langs", !.idx = idx, !.nrepos = nrepos,
                             !.bytes = breakdown, !.nreq = fc.nreq + 1,
                             !.seen = seen]
         /\ fev' = [FevNone EXCEPT !.op = "request", !.fn = "langs", !.h = fc.h,
                       !.status = st, !.n = nrepos, !.nreq = fc.nreq + 1,
                       !.seen = seen]
    ELSE /\ fc' = FcIdle
         /\ fev' = [FevNone EXCEPT !.op = "return", !.fn = "langs", !.h = fc.h,
                       !.status = st, !.n = nrepos, !.nreq = fc.nreq,
                       !.ret = FetchLangs(breakdown), !.seen = seen]

\* githubApiRequest returns the listing (status st, nrepos repositories)
LangsListing(st, nrepos) ==
    /\ fc.fn = "langs" /\ fc.pc = "listing"
    /\ IF st # 200
       THEN /\ fc' = FcIdle
            /\ fev' = [FevNone EXCEPT !.op = "return", !.fn = "langs",
                          !.h = fc.h, !.status = st, !.nreq = fc.nreq,
                          !.ret = FetchLangs(NoBytes)]
       ELSE LangsLoopStep(1, nrepos, NoBytes, st, NoBytes)
    /\ UNCHANGED <<storeVars, httpVars, now, githubUserCache, known, agg, auth>>

\* githubApiRequest returns the languages of repository fc.idx
LangsResponse(st, body) ==
    /\ fc.fn = "langs" /\ fc.pc = "langs"
    /\ IF st \in {403, 429}
       THEN /\ fc' = FcIdle
            /\ fev' = [FevNone EXCEPT !.op = "return", !.fn = "langs",
                          !.h = fc.h, !.status = st, !.n = fc.nrepos,
                          !.nreq = fc.nreq, !.ret = FetchLangs(fc.bytes),
                          !.seen = fc.seen]
       ELSE LangsLoopStep(fc.idx + 1, fc.nrepos,
                          IF st = 200 THEN AddLanguages(fc.bytes, body)
                          ELSE fc.bytes,
                          st,
                          IF st = 200
                          THEN [k \in LangKeys |-> fc.seen[k] + body[k]]
                          ELSE fc.seen)
    /\ UNCHANGED <<storeVars, httpVars, now, githubUserCache, known, agg, auth>>

\* githubApiRequest or response.json() rejects for repository fc.idx: the
\* catch block inside the loop
LangsThrow ==
    /\ fc.fn = "langs" /\ fc.pc = "langs"
    /\ LangsLoopStep(fc.idx + 1, fc.nrepos, fc.bytes, 0, fc.seen)
    /\ UNCHANGED <<storeVars, httpVars, now, githubUserCache, known, agg, auth>>

\* githubApiRequest or response.json() rejects for the listing: the outer
\* catch block
LangsListingThrow ==
    /\ fc.fn = "langs" /\ fc.pc = "listing"
    /\ fc' = FcIdle
    /\ fev' = [FevNone EXCEPT !.op = "return", !.fn = "langs", !.h = fc.h,
                  !.nreq = fc.nreq, !.ret = FetchLangs(NoBytes)]
    /\ UNCHANGED <<storeVars, httpVars, now, githubUserCache, known, agg, auth>>

(* fetchUserPullRequests *)

\* fetchUserPullRequests(h): an empty list with or without a token
FetchUserPullRequests(h) ==
    /\ fc.pc = "idle"
    /\ fc' = FcIdle
    /\ fev' = [FevNone EXCEPT !.op = "return", !.fn = "prs", !.h = h,
                  !.ret = FetchPRs]
    /\ UNCHANGED <<storeVars, httpVars, now, githubUserCache, known, agg, auth>>

-----------------------------------------------------------------------------
(* The aggregation functions *)

\* a field that is undefined or null (counts are 0 or more)
Undefined == -1
Null == -2

\* x || 0
OrZero(x) == IF x \in {Undefined, Null, 0} THEN 0 ELSE x

\* strings are sequences of characters; "" is <<>>
Blank == " "

\* a member as the aggregation functions read it; recentPRs holds the
\* created_at of each item, hasActivity is member.githubActivity being set
PlainMember ==
    [displayName |-> <<>>, firstName |-> <<>>, lastName |-> <<>>,
     githubConnected |-> TRUE, githubUsername |-> 0, hasActivity |-> TRUE,
     commits |-> Undefined, contributions |-> Undefined,
     pullRequests |-> Undefined, mergedPRs |-> Undefined,
     openPRs |-> Undefined, publicRepos |-> Undefined, recentPRs |-> <<>>,
     languages |-> [form |-> "none", items |-> <<>>]]

\* no aggregation function is being applied
AggNone == [fn |-> "none", pc |-> "idle", members |-> <<>>, days |-> 0,
            lens |-> <<>>, i |-> 0, buckets |-> <<>>, ranking |-> <<>>,
            sum |-> 0, nreq |-> 0, cache0 |-> EmptyCache, lookups |-> 0,
            isBytes |-> FALSE]

(* getPRTrendsData (dashboard) *)

\* Times are hours since the local midnight that starts day 1. The local
\* day i lasts lens[i] hours: 24, or 23 or 25 when the clocks change in it.
HoursPerDay == 24

\* new Date(pr.created_at) of a text that is no date
InvalidDate == -100

RECURSIVE SumSeq(_)
SumSeq(q) == IF q = <<>> THEN 0 ELSE Head(q) + SumSeq(Tail(q))

\* dayStarts[i]: new Date(d.getFullYear(), d.getMonth(), d.getDate())
DayStart(lens, i) == SumSeq(SubSeq(lens, 1, i - 1))

\* the first bucket whose [start, start + 24 h) holds created; 0 when the
\* loop ends without a bucket
RECURSIVE BucketFrom(_, _, _, _)
BucketFrom(created, lens, i, days) ==
    IF i > days \/ created = InvalidDate THEN 0
    ELSE IF created >= DayStart(lens, i)
            /\ created < DayStart(lens, i) + HoursPerDay
    THEN i
    ELSE BucketFrom(created, lens, i + 1, days)

\* m.githubActivity?.recentPRs || []
RecentPRs(m) == IF m.hasActivity THEN m.recentPRs ELSE <<>>

RECURSIVE AllRecentPRs(_)
AllRecentPRs(ms) ==
    IF ms = <<>> THEN <<>> ELSE RecentPRs(Head(ms)) \o AllRecentPRs(Tail(ms))

\* buckets[i]++ for every item, in the order of the members
RECURSIVE CountStamps(_, _, _, _)
CountStamps(stamps, lens, days, buckets) ==
    IF stamps = <<>> THEN buckets
    ELSE LET b == BucketFrom(Head(stamps), lens, 1, days) IN
         CountStamps(Tail(stamps), lens, days,
                     IF b = 0 THEN buckets
                     ELSE [buckets EXCEPT ![b] = buckets[b] + 1])

\* if (recent.length) hasTimestamps = true
HasTimestamps(ms) == \E k \in 1..Len(ms) : Len(RecentPRs(ms[k])) > 0

\* members.reduce((sum, m) => sum + (m.githubActivity?.pullRequests || 0), 0)
RECURSIVE TotalPRs(_)
TotalPRs(ms) ==
    IF ms = <<>> THEN 0
    ELSE (IF Head(ms).hasActivity THEN OrZero(Head(ms).pullRequests) ELSE 0)
         + TotalPRs(Tail(ms))

\* the remainder handed to the last days
RECURSIVE DistributeFromEnd(_, _, _, _, _)
DistributeFromEnd(i, rem, base, days, buckets) ==
    IF i > days THEN buckets
    ELSE DistributeFromEnd(i + 1, rem, base, days,
            [buckets EXCEPT ![i] = base + (IF i > days - rem THEN 1 ELSE 0)])

\* for (let i = 0; i < days; i++) {
\*   buckets[i] = base + (rem > 0 ? 1 : 0); if (rem > 0) rem--; }
RECURSIVE DistributeFrom(_, _, _, _, _)
DistributeFrom(i, rem, base, days, buckets) ==
    IF i > days THEN buckets
    ELSE DistributeFrom(i + 1, IF rem > 0 THEN rem - 1 ELSE rem, base, days,
            [buckets EXCEPT ![i] = base + (IF rem > 0 THEN 1 ELSE 0)])

\* getPRTrendsData(members, days), the local days lasting lens hours
GetPRTrendsData(ms, days, lens) ==
    LET zeros == [i \in 1..days |-> 0]
        total == TotalPRs(ms)
        base == total \div days
    IN IF HasTimestamps(ms)
       THEN CountStamps(AllRecentPRs(ms), lens, days, zeros)
       ELSE DistributeFrom(1, total - base * days, base, days, zeros)

\* getPRTrendsData is applied to its input
ApplyPRTrends ==
    /\ agg.fn = "trend" /\ agg.pc = "ready"
    /\ agg' = [agg EXCEPT !.pc = "done",
                  !.buckets = GetPRTrendsData(agg.members, agg.days, agg.lens)]
    /\ UNCHANGED <<storeVars, httpVars, now, fetchVars, auth>>

\* the lengths of days 1..days: at most one day on which the clocks change
DayLengths(days) ==
    { l \in [1..days -> {HoursPerDay - 1, HoursPerDay, HoursPerDay + 1}] :
        \A i, j \in 1..days : (l[i] # HoursPerDay /\ l[j] # HoursPerDay) => i = j }

\* created_at values: before day 1, no date at all, and for each day its
\* first hour, its hour 23 and (when it has one) its hour 24
StampTimes(days, lens) ==
    {-1, InvalidDate} \cup
    { t \in { DayStart(lens, i) + o : i \in 1..days, o \in {0, 23, 24} } :
        t < DayStart(lens, days + 1) }

\* members that carry counts only
CountMembers ==
    { [PlainMember EXCEPT !.hasActivity = a, !.pullRequests = c] :
        a \in BOOLEAN, c \in {Undefined, 0, 1, 2, 5} }

\* members with a count and at most one timestamped item
StampMembers(days, lens) ==
    { [PlainMember EXCEPT !.pullRequests = 2, !.recentPRs = r] :
        r \in {<<>>} \cup { <<t>> : t \in StampTimes(days, lens) } }

\* the arguments of getPRTrendsData: up to n members, up to maxDays days
TrendInputs(n, maxDays) ==
    { [AggNone EXCEPT !.fn = "trend", !.pc = "ready", !.members = ms,
                      !.days = d, !.lens = [i \in 1..d |-> HoursPerDay]] :
        d \in 1..maxDays, ms \in SeqsUpTo(CountMembers, n) }
    \cup
    UNION { UNION { { [AggNone EXCEPT !.fn = "trend", !.pc = "ready",
                                     !.members = ms, !.days = d, !.lens = l] :
                        ms \in SeqsUpTo(StampMembers(d, l), n) } :
                    l \in DayLengths(d) } :
            d \in 1..maxDays }

(* getTopCommitters, getTopContributors, getTopPRCreators (analytics);    *)
(* getTopCommitters (dashboard)                                            *)

\* slice(0, 10)
TopN == 10

Unknown == <<"Unknown">>

\* String.prototype.trim on a sequence of characters
RECURSIVE TrimLeft(_)
TrimLeft(str) ==
    IF str # <<>> /\ Head(str) = Blank THEN TrimLeft(Tail(str)) ELSE str

RECURSIVE TrimRight(_)
TrimRight(str) ==
    IF str # <<>> /\ str[Len(str)] = Blank
    THEN TrimRight(SubSeq(str, 1, Len(str) - 1)) ELSE str

TrimChars(str) == TrimRight(TrimLeft(str))

\* member.displayName ||
\* `${member.firstName || ""} ${member.lastName || ""}`.trim() || "Unknown"
ResolveName(m) ==
    IF m.displayName # <<>> THEN m.displayName
    ELSE IF TrimChars(m.firstName \o <<Blank>> \o m.lastName) # <<>>
    THEN TrimChars(m.firstName \o <<Blank>> \o m.lastName)
    ELSE Unknown

Defined(x) == x # Undefined /\ x # Null

\* a value that is neither undefined, null nor 0
TruthyCount(x) == x \notin {Undefined, Null, 0}

\* the field a ranking orders by
RankedField(fn, m) ==
    IF fn = "committers" THEN m.commits
    ELSE IF fn = "contributors" THEN m.contributions
    ELSE m.pullRequests

\* the argument of filter
Qualifies(fn, m) ==
    /\ m.hasActivity
    /\ IF fn = "prCreators"
       THEN \/ TruthyCount(m.pullRequests)
            \/ TruthyCount(m.mergedPRs)
            \/ TruthyCount(m.openPRs)
       ELSE Defined(RankedField(fn, m))

\* filter(...).map(...): idx is the position of the member in the input
RECURSIVE Entries(_, _, _)
Entries(fn, ms, k) ==
    IF k > Len(ms) THEN <<>>
    ELSE (IF Qualifies(fn, ms[k])
          THEN <<[name |-> ResolveName(ms[k]),
                  value |-> OrZero(RankedField(fn, ms[k])), idx |-> k]>>
          ELSE <<>>)
         \o Entries(fn, ms, k + 1)

\* a sort that puts an entry before the earlier entries of equal value
RECURSIVE InsertByValueBeforeEqual(_, _)
InsertByValueBeforeEqual(sorted, e) ==
    IF sorted = <<>> THEN <<e>>
    ELSE IF Head(sorted).value > e.value
    THEN <<Head(sorted)>> \o InsertByValueBeforeEqual(Tail(sorted), e)
    ELSE <<e>> \o sorted

\* Array.prototype.sort with (a, b) => b.value - a.value: stable, larger
\* values first
RECURSIVE InsertByValue(_, _)
InsertByValue(sorted, e) ==
    IF sorted = <<>> THEN <<e>>
    ELSE IF Head(sorted).value >= e.value
    THEN <<Head(sorted)>> \o InsertByValue(Tail(sorted), e)
    ELSE <<e>> \o sorted

RECURSIVE SortByValue(_)
SortByValue(list) ==
    IF list = <<>> THEN <<>>
    ELSE InsertByValue(SortByValue(SubSeq(list, 1, Len(list) - 1)),
                       list[Len(list)])

GetTop(fn, ms) == Slice(SortByValue(Entries(fn, ms, 1)), TopN)

RankingFns == {"committers", "contributors", "prCreators"}

\* getTopCommitters(members)
ApplyTopCommitters ==
    /\ agg.fn = "committers" /\ agg.pc = "ready"
    /\ agg' = [agg EXCEPT !.pc = "done",
                  !.ranking = GetTop("committers", agg.members)]
    /\ UNCHANGED <<storeVars, httpVars, now, fetchVars, auth>>

\* getTopContributors(members)
ApplyTopContributors ==
    /\ agg.fn = "contributors" /\ agg.pc = "ready"
    /\ agg' = [agg EXCEPT !.pc = "done",
                  !.ranking = GetTop("contributors", agg.members)]
    /\ UNCHANGED <<storeVars, httpVars, now, fetchVars, auth>>

\* getTopPRCreators(members)
ApplyTopPRCreators ==
    /\ agg.fn = "prCreators" /\ agg.pc = "ready"
    /\ agg' = [agg EXCEPT !.pc = "done",
                  !.ranking = GetTop("prCreators", agg.members)]
    /\ UNCHANGED <<storeVars, httpVars, now, fetchVars, auth>>

\* members with the same count v in commits, contributions and pullRequests
RankMembers ==
    { [PlainMember EXCEPT !.hasActivity = FALSE] } \cup
    { [PlainMember EXCEPT !.displayName = <<"D">>, !.commits = v,
                          !.contributions = v, !.pullRequests = v] :
        v \in {Undefined, Null, 0, 1, 2} } \cup
    { [PlainMember EXCEPT !.displayName = <<"D">>, !.commits = v,
                          !.contributions = v, !.pullRequests = v,
                          !.mergedPRs = 1] :
        v \in {Undefined, 0} }

\* members that differ in their names
NamedMembers ==
    { [PlainMember EXCEPT !.displayName = d, !.firstName = f, !.lastName = l,
                          !.commits = 1, !.contributions = 1,
                          !.pullRequests = 1] :
        d \in {<<>>, <<"D">>, <<Blank>>}, f \in {<<>>, <<"F">>, <<Blank>>},
        l \in {<<>>, <<"L">>} }

\* n members with the count 1
Fillers(n) ==
    [k \in 1..n |-> [PlainMember EXCEPT !.displayName = <<"D">>, !.commits = 1,
                                        !.contributions = 1, !.pullRequests = 1]]

\* the arguments of the rankings: up to edge members, a block of equal
\* members, up to edge members
RankInputs(edge) ==
    { [AggNone EXCEPT !.fn = fn, !.pc = "ready",
                      !.members = pre \o Fillers(n) \o post] :
        fn \in RankingFns, n \in {0, TopN - 1, TopN},
        pre \in SeqsUpTo(RankMembers, edge),
        post \in SeqsUpTo(RankMembers, edge) }
    \cup
    { [AggNone EXCEPT !.fn = fn, !.pc = "ready", !.members = <<m>>] :
        fn \in RankingFns, m \in NamedMembers }

(* getRepositoryData, getActivityStats (analytics) *)

\* member.githubConnected && member.githubUsername
HasGitHub(m) == m.githubConnected /\ m.githubUsername # 0

\* a fallback for every member with an account
NeedsFallbackAlways(m) == TRUE

\* (!member.githubActivity || !member.githubActivity.publicRepos) &&
\* member.githubUsername
NeedsFallback(m) ==
    /\ ~m.hasActivity \/ OrZero(m.publicRepos) = 0
    /\ m.githubUsername # 0

\* the for loop of getRepositoryData from member i on, publicRepos being
\* sum, up to its end or up to the first await fetchGitHubUserInfo (the
\* other totals are summed from the stored activity in the same way)
RECURSIVE RepositoryLoop(_, _, _)
RepositoryLoop(ms, i, sum) ==
    IF i > Len(ms) THEN [i |-> i, sum |-> sum, await |-> FALSE]
    ELSE LET m == ms[i]
             s == IF HasGitHub(m) /\ m.hasActivity
                  THEN sum + OrZero(m.publicRepos) ELSE sum
         IN IF HasGitHub(m) /\ NeedsFallback(m)
            THEN [i |-> i, sum |-> s, await |-> TRUE]
            ELSE RepositoryLoop(ms, i + 1, s)

\* getRepositoryData runs from member i to its next await or to its return;
\* nreq counts the requests its calls issue, lookups its calls
RepositoryDataRun(i, sum) ==
    LET r == RepositoryLoop(agg.members, i, sum) IN
    IF r.await
    THEN LET h == agg.members[r.i].githubUsername IN
         /\ UserInfoCall(h, TRUE)
         /\ agg' = [agg EXCEPT !.pc = "await", !.i = r.i, !.sum = r.sum,
                       !.lookups = @ + 1,
                       !.nreq = IF UserCacheHit(githubUserCache, h, TRUE)
                                THEN @ ELSE @ + 1]
    ELSE /\ agg' = [agg EXCEPT !.pc = "done", !.i = r.i, !.sum = r.sum]
         /\ UNCHANGED <<fc, fev>>

\* getRepositoryData(members) up to its first await or to its return
GetRepositoryData ==
    /\ agg.fn = "repoData" /\ agg.pc = "ready"
    /\ fc.pc = "idle"
    /\ RepositoryDataRun(1, 0)
    /\ UNCHANGED <<storeVars, httpVars, now, githubUserCache, known, auth>>

\* fetchGitHubUserInfo has returned githubInfo (it catches what it throws,
\* so the catch block of getRepositoryData is never entered):
\* if (githubInfo) publicRepos += githubInfo.public_repos || 0
RepositoryDataResume ==
    /\ agg.fn = "repoData" /\ agg.pc = "await"
    /\ fc.pc = "idle"
    /\ RepositoryDataRun(agg.i + 1,
                         agg.sum + IF fev.ret.kind = "profile"
                                   THEN fev.ret.info.v ELSE 0)
    /\ UNCHANGED <<storeVars, httpVars, now, githubUserCache, known, auth>>

\* Math.round(a / b) for a >= 0, b > 0
RoundDiv(a, b) == (2 * a + b) \div (2 * b)

\* commits !== undefined && commits !== null ? commits : 0
DefinedOrZero(x) == IF x \in {Undefined, Null} THEN 0 ELSE x

\* getActivityStats(members): <<totalRepos, totalPRs, totalCommits, avgRepos,
\* avgPRs, connectedMembers>> (stars, issues and forks are summed like
\* pullRequests)
GetActivityStats(ms) ==
    LET Stored(m) == m.githubConnected /\ m.hasActivity
        Counted(m) ==
            m.githubConnected /\ (m.hasActivity \/ m.githubUsername # 0)
        Each(k) == ms[k]
        I == 1..Len(ms)
        totalRepos == SumSeq([k \in I |-> IF Stored(Each(k))
                                THEN OrZero(Each(k).publicRepos) ELSE 0])
        totalPRs == SumSeq([k \in I |-> IF Stored(Each(k))
                              THEN OrZero(Each(k).pullRequests) ELSE 0])
        totalCommits == SumSeq([k \in I |-> IF Stored(Each(k))
                                  THEN DefinedOrZero(Each(k).commits) ELSE 0])
        memberCount == Cardinality({ k \in I : Counted(Each(k)) })
    IN <<totalRepos, totalPRs, totalCommits,
         IF memberCount > 0 THEN RoundDiv(totalRepos, memberCount) ELSE 0,
         IF memberCount > 0 THEN RoundDiv(totalPRs, memberCount) ELSE 0,
         Cardinality({ k \in I : Each(k).githubConnected })>>

\* getActivityStats(members)
ApplyActivityStats ==
    /\ agg.fn = "activityStats" /\ agg.pc = "ready"
    /\ agg' = [agg EXCEPT !.pc = "done",
                  !.buckets = GetActivityStats(agg.members)]
    /\ UNCHANGED <<storeVars, httpVars, now, fetchVars, auth>>

\* members without GitHub, without a username, and with an account whose
\* stored activity is absent or holds no, a zero or a positive repository
\* count
RepoMembers ==
    { [PlainMember EXCEPT !.githubConnected = FALSE, !.githubUsername = 1,
                          !.publicRepos = 3],
      [PlainMember EXCEPT !.hasActivity = FALSE] } \cup
    { [PlainMember EXCEPT !.githubUsername = h, !.hasActivity = a] :
        h \in Handles, a \in BOOLEAN } \cup
    { [PlainMember EXCEPT !.githubUsername = h, !.publicRepos = v,
                          !.pullRequests = v, !.commits = v] :
        h \in Handles, v \in {0, 3} }

\* the arguments of getRepositoryData and getActivityStats: up to n members
RepoInputs(n) ==
    { [AggNone EXCEPT !.fn = fn, !.pc = "ready", !.members = ms] :
        fn \in {"repoData", "activityStats"}, ms \in SeqsUpTo(RepoMembers, n) }

(* getLanguageData (analytics) *)

\* githubActivity.languages: absent (form "none"), an object whose
\* Object.entries are items [name, count], an array of strings [name] and of
\* objects [name, count, value], or another truthy value (form "other").
\* Names are sequences of characters; a count that is no number is Undefined.
NullName == <<"null">>

Pair(name, count) ==
    [t |-> "pair", name |-> name, count |-> count, value |-> Undefined]
StringItem(name) ==
    [t |-> "string", name |-> name, count |-> Undefined, value |-> Undefined]
EntryItem(name, count, value) ==
    [t |-> "entry", name |-> name, count |-> count, value |-> value]

\* .slice(0, 15)
TopLanguages == 15

\* maxValue > 10000
BytesThreshold == 10000

\* Number(count) || 0
NumberOrZero(c) == IF c \in {Undefined, Null} THEN 0 ELSE c

\* Number(lang.count || lang.value || 1) || 1
EntryCount(it) ==
    IF TruthyCount(it.count) THEN it.count
    ELSE IF TruthyCount(it.value) THEN it.value
    ELSE 1

\* languageCounts[langName] = (languageCounts[langName] || 0) + n, the keys
\* of languageCounts in insertion order
AddCount(counts, name, n) ==
    IF \E i \in 1..Len(counts) : counts[i].name = name
    THEN [i \in 1..Len(counts) |->
            IF counts[i].name = name
            THEN [counts[i] EXCEPT !.value = @ + n] ELSE counts[i]]
    ELSE Append(counts, [name |-> name, value |-> n, idx |-> 0])

\* the body of the forEach over the entries of an object or the elements
\* of an array
CountItem(counts, it) ==
    LET langName == TrimChars(it.name) IN
    IF it.t = "pair"
    THEN IF /\ langName # <<>>
            /\ NumberOrZero(it.count) > 0
            /\ langName # Unknown
            /\ langName # NullName
         THEN AddCount(counts, langName, NumberOrZero(it.count)) ELSE counts
    ELSE IF it.t = "string"
    THEN IF langName # <<>> /\ langName # Unknown
         THEN AddCount(counts, langName, 1) ELSE counts
    ELSE IF it.name # <<>>
    THEN IF langName # <<>> /\ langName # Unknown /\ EntryCount(it) > 0
         THEN AddCount(counts, langName, EntryCount(it)) ELSE counts
    ELSE counts

RECURSIVE CountItems(_, _)
CountItems(counts, items) ==
    IF items = <<>> THEN counts
    ELSE CountItems(CountItem(counts, Head(items)), Tail(items))

\* member.githubActivity && member.githubActivity.languages
HasLanguages(m) == m.hasActivity /\ m.languages.form # "none"

\* members.forEach((member) => { ... })
RECURSIVE LanguageCounts(_, _)
LanguageCounts(counts, ms) ==
    IF ms = <<>> THEN counts
    ELSE LanguageCounts(
            IF HasLanguages(Head(ms)) /\ Head(ms).languages.form \in {"object", "array"}
            THEN CountItems(counts, Head(ms).languages.items) ELSE counts,
            Tail(ms))

\* .filter(([lang]) => lang && lang.trim() !== "" && lang.trim() !== "Unknown")
RECURSIVE FilterLanguages(_)
FilterLanguages(list) ==
    IF list = <<>> THEN <<>>
    ELSE (IF /\ Head(list).name # <<>>
             /\ TrimChars(Head(list).name) # <<>>
             /\ TrimChars(Head(list).name) # Unknown
          THEN <<Head(list)>> ELSE <<>>) \o FilterLanguages(Tail(list))

\* { labels: ["No Language Data"], data: [1], isBytes: false }
NoLanguageData ==
    [list |-> <<[name |-> <<"No Language Data">>, value |-> 1, idx |-> 0]>>,
     isBytes |-> FALSE]

\* getLanguageData(members): labels[i] and data[i] are list[i].name and
\* list[i].value
GetLanguageData(ms) ==
    LET counts == LanguageCounts(<<>>, ms)
        hasLanguageData == \E k \in 1..Len(ms) : HasLanguages(ms[k])
        sortedLanguages ==
            FilterLanguages(Slice(SortByValue(counts), TopLanguages))
    IN IF ~hasLanguageData \/ counts = <<>> THEN NoLanguageData
       ELSE IF sortedLanguages = <<>> THEN NoLanguageData
       ELSE [list |-> sortedLanguages,
             isBytes |-> \E i \in 1..Len(sortedLanguages) :
                            sortedLanguages[i].value > BytesThreshold]

\* getLanguageData(members)
ApplyLanguageData ==
    /\ agg.fn = "languages" /\ agg.pc = "ready"
    /\ agg' = [agg EXCEPT !.pc = "done",
                  !.ranking = GetLanguageData(agg.members).list,
                  !.isBytes = GetLanguageData(agg.members).isBytes]
    /\ UNCHANGED <<storeVars, httpVars, now, fetchVars, auth>>

\* entries of the object form, of the array form
PairPool ==
    { Pair(<<"JS">>, c) : c \in {Undefined, 10, 500, 20000} } \cup
    { Pair(<<"Go">>, c) : c \in {0 - 5, 0} } \cup
    { Pair(n, 10) : n \in {<<>>, <<Blank>>, Unknown, NullName,
                           <<Blank, "Unknown", Blank>>} }

ArrayPool ==
    { StringItem(n) : n \in {<<"JS">>, <<Blank, "JS">>, <<>>, Unknown,
                             NullName} } \cup
    { EntryItem(n, 5, Undefined) : n \in {<<"JS">>, <<>>, Unknown, NullName} } \cup
    { EntryItem(<<"Go">>, c, v) : c \in {Undefined, 0, 0 - 5}, v \in {Undefined, 7} }

\* an object has each key once
DistinctNames(items) ==
    \A i, j \in 1..Len(items) : i # j => items[i].name # items[j].name

LanguageValues(n) ==
    { [form |-> f, items |-> <<>>] : f \in {"none", "other"} } \cup
    { [form |-> "object", items |-> q] :
        q \in { r \in SeqsUpTo(PairPool, n) : DistinctNames(r) } } \cup
    { [form |-> "array", items |-> q] : q \in SeqsUpTo(ArrayPool, n) }

\* {JS: 500, Unknown: 10, Go: 0}
ExampleLanguages ==
    [form |-> "object",
     items |-> <<Pair(<<"JS">>, 500), Pair(Unknown, 10), Pair(<<"Go">>, 0)>>]

\* sixteen languages, the i-th counted i times
ManyLanguages ==
    LET names == <<"A", "B", "C", "D", "E", "F", "G", "H", "I", "J", "K",
                   "L", "M", "N", "O", "P">> IN
    [form |-> "object",
     items |-> [i \in 1..(TopLanguages + 1) |-> Pair(<<names[i]>>, i)]]

\* the arguments of getLanguageData: one member with up to n entries, two
\* members with one entry each, the example, more than 15 languages
LanguageInputs(n) ==
    LET With(l) == [PlainMember EXCEPT !.languages = l] IN
    { [AggNone EXCEPT !.fn = "languages", !.pc = "ready", !.members = ms] :
        ms \in { <<With(l)>> : l \in LanguageValues(n) }
          \cup { <<With(l1), With(l2)>> :
                   l1 \in LanguageValues(1), l2 \in LanguageValues(1) }
          \cup { <<>>, <<[With(ExampleLanguages) EXCEPT !.hasActivity = FALSE]>>,
                 <<With(ExampleLanguages)>>, <<With(ManyLanguages)>>,
                 <<With(ManyLanguages), With(ExampleLanguages)>> } }

-----------------------------------------------------------------------------
(* The authentication module *)

\* what the build leaves in ADMIN_EMAIL: the placeholder, nothing, blanks,
\* or the administrator's address
Placeholder == <<"VITE_ADMIN_EMAIL">>
AdminAddress == <<"admin@example.org">>
AdminEmails == {Placeholder, <<>>, <<Blank>>, AdminAddress}

\* the accounts of the Firebase project; NoUser stands for null
NoUser == <<"null">>
Emails == {AdminAddress, <<"other@example.org">>}

\* ADMIN_EMAIL === 'VITE_ADMIN_EMAIL' || !ADMIN_EMAIL ||
\* ADMIN_EMAIL.trim() === ''
Unconfigured(adminEmail) ==
    adminEmail = Placeholder \/ adminEmail = <<>> \/ TrimChars(adminEmail) = <<>>

\* a check that takes every signed-in user for the administrator
CheckAdminStatusAnyUser(email, adminEmail) == TRUE

\* checkAdminStatus(user)
CheckAdminStatus(email, adminEmail) ==
    IF Unconfigured(adminEmail) THEN FALSE ELSE email = adminEmail

\* auth.js after import, Firebase holding no session. session is the user
\* Firebase holds, pending says that an auth state change is still to be
\* delivered to the listener, lis and login are the positions of the listener
\* callback and of adminLogin, called the callbacks invoked so far, got
\* what getCurrentUser() returned last, ret how adminLogin ended last.
AuthNone ==
    [adminEmail |-> Placeholder, currentUser |-> NoUser, session |-> NoUser,
     pending |-> FALSE, lis |-> "none", lisUser |-> NoUser,
     login |-> "idle", loginEmail |-> NoUser, called |-> {},
     got |-> NoUser, ret |-> "none", attempts |-> 0, denials |-> 0]

\* initializeAuth(onAuthenticated, onUnauthenticated): onAuthStateChanged
\* registers the listener, which Firebase calls with the session it holds
InitializeAuth ==
    /\ auth.lis = "none"
    /\ auth' = [auth EXCEPT !.lis = "idle", !.pending = TRUE]
    /\ UNCHANGED <<storeVars, httpVars, now, fetchVars, agg>>

\* the listener is called with user: up to await checkAdminStatus(user), or
\* to its end when user is null
AuthStateChanged ==
    /\ auth.lis = "idle" /\ auth.pending
    /\ IF auth.session # NoUser
       THEN auth' = [auth EXCEPT !.pending = FALSE, !.lis = "check",
                                  !.lisUser = auth.session]
       ELSE auth' = [auth EXCEPT !.pending = FALSE, !.currentUser = NoUser,
                                  !.called = @ \cup {"onUnauthenticated"}]
    /\ UNCHANGED <<storeVars, httpVars, now, fetchVars, agg>>

\* the listener after checkAdminStatus: currentUser = user and
\* onAuthenticated(user), or up to await signOut(auth)
ListenerChecked ==
    /\ auth.lis = "check"
    /\ IF CheckAdminStatus(auth.lisUser, auth.adminEmail)
       THEN auth' = [auth EXCEPT !.lis = "idle", !.currentUser = auth.lisUser,
                                  !.called = @ \cup {"onAuthenticated"}]
       ELSE auth' = [auth EXCEPT !.lis = "signout",
                                  !.denials = IF @ < 1 THEN @ + 1 ELSE @]
    /\ UNCHANGED <<storeVars, httpVars, now, fetchVars, agg>>

\* signOut(auth) of the listener resolves (Firebase drops the session and
\* announces the change), then onUnauthenticated(); or it rejects and the
\* listener ends with the rejection
ListenerSignedOut(ok) ==
    /\ auth.lis = "signout"
    /\ IF ok
       THEN auth' = [auth EXCEPT !.lis = "idle", !.session = NoUser,
                                  !.pending = @ \/ auth.session # NoUser,
                                  !.called = @ \cup {"onUnauthenticated"}]
       ELSE auth' = [auth EXCEPT !.lis = "idle"]
    /\ UNCHANGED <<storeVars, httpVars, now, fetchVars, agg>>

\* adminLogin(email, password) up to its throw for a missing ADMIN_EMAIL or to
\* await signInWithEmailAndPassword
AdminLogin(email) ==
    /\ auth.login = "idle"
    /\ IF Unconfigured(auth.adminEmail)
       THEN auth' = [auth EXCEPT !.ret = "throw",
                                  !.attempts = IF @ < 1 THEN @ + 1 ELSE @]
       ELSE auth' = [auth EXCEPT !.login = "signin", !.loginEmail = email,
                                  !.ret = "none"]
    /\ UNCHANGED <<storeVars, httpVars, now, fetchVars, agg>>

\* signInWithEmailAndPassword resolves: Firebase holds the user; adminLogin
\* returns the administrator, and goes on to await signOut(auth) for
\* anybody else
SignInResolves ==
    /\ auth.login = "signin"
    /\ IF auth.loginEmail # auth.adminEmail
       THEN auth' = [auth EXCEPT !.login = "signout",
                                  !.session = auth.loginEmail,
                                  !.pending = @ \/ auth.session # auth.loginEmail]
       ELSE auth' = [auth EXCEPT !.login = "idle", !.ret = "user",
                                  !.session = auth.loginEmail,
                                  !.pending = @ \/ auth.session # auth.loginEmail,
                                  !.currentUser = auth.loginEmail]
    /\ UNCHANGED <<storeVars, httpVars, now, fetchVars, agg>>

\* signInWithEmailAndPassword rejects (wrong password, network, ...): the
\* catch block throws
SignInRejects ==
    /\ auth.login = "signin"
    /\ auth' = [auth EXCEPT !.login = "idle", !.ret = "throw"]
    /\ UNCHANGED <<storeVars, httpVars, now, fetchVars, agg>>

\* signOut(auth) of adminLogin settles: 'Access denied', or the rejection,
\* is thrown
LoginSignedOut(ok) ==
    /\ auth.login = "signout"
    /\ auth' = [auth EXCEPT !.login = "idle", !.ret = "throw",
                   !.session = IF ok THEN NoUser ELSE @,
                   !.pending = @ \/ (ok /\ auth.session # NoUser)]
    /\ UNCHANGED <<storeVars, httpVars, now, fetchVars, agg>>

\* adminLogout(): signOut(auth) resolves and currentUser = null, or it
\* rejects and the rejection is thrown
AdminLogout(ok) ==
    /\ IF ok
       THEN auth' = [auth EXCEPT !.session = NoUser, !.currentUser = NoUser,
                                  !.pending = @ \/ auth.session # NoUser]
       ELSE auth' = auth
    /\ UNCHANGED <<storeVars, httpVars, now, fetchVars, agg>>

\* getCurrentUser()
GetCurrentUser ==
    /\ auth' = [auth EXCEPT !.got = auth.currentUser]
    /\ UNCHANGED <<storeVars, httpVars, now, fetchVars, agg>>

\* a user signs in to the Firebase project from another page of the origin,
\* which shares the session
SessionSignIn(email) ==
    /\ auth.session # email
    /\ auth' = [auth EXCEPT !.session = email, !.pending = TRUE]
    /\ UNCHANGED <<storeVars, httpVars, now, fetchVars, agg>>

-----------------------------------------------------------------------------
(* Initial states *)

\* data-store.js after import; storage as an earlier session of the page
\* left it
InitStore ==
    /\ members = <<>>
    /\ lastFetchTime = 0
    /\ denied \in BOOLEAN
    /\ ls \in {EmptyStorage} \cup
              { [k \in Keys |-> IF k = CACHE_KEY THEN Item(JSONstringify(X))
                                ELSE Item(NumToString(1000))] : X \in Collections }
    /\ denied => ls = EmptyStorage
    /\ calls = [c \in 1..MaxCalls |-> NoCall]
    /\ ev = EvNone
    /\ hist = HistNone

\* utils.js after import
InitHttp ==
    /\ rateLimitReset = 0
    /\ rateLimitRemaining = {}
    /\ warningShown = FALSE
    /\ warnings = 0
    /\ started = 0
    /\ reqs = [p \in Procs |-> NoReq]
    /\ hev = HevNone

\* utils.js after import, no fetcher running
InitFetch ==
    /\ githubUserCache = EmptyCache
    /\ fc = FcIdle
    /\ fev = FevNone
    /\ known = EmptyCache

(* The member cache, the HTTP client idle *)
Init ==
    /\ InitStore
    /\ InitHttp
    /\ InitFetch
    /\ agg = AggNone
    /\ auth = AuthNone
    /\ hasToken = TRUE
    /\ now = 10000

Next ==
    \/ \E X \in Collections, fail \in SaveFailures : SetMembers(X, fail)
    \/ ClearMembersCache
    \/ IsCacheFresh
    \/ GetMembers
    \/ \E c \in 1..MaxCalls, skipCache \in BOOLEAN : LoadMembersDataStart(c, skipCache)
    \/ \E c \in 1..MaxCalls, docs \in Collections, fail \in SaveFailures :
          GetDocsResolve(c, docs, fail)
    \/ \E c \in 1..MaxCalls : GetDocsReject(c)
    \/ \E k \in Keys : ExternalRemoveItem(k)

Spec == Init /\ [][Next]_vars

(* The member cache on a page that finds neither key and whose keys no     *)
(* other script touches                                                     *)
InitSession ==
    /\ members = <<>>
    /\ lastFetchTime = 0
    /\ denied \in BOOLEAN
    /\ ls = EmptyStorage
    /\ calls = [c \in 1..MaxCalls |-> NoCall]
    /\ ev = EvNone
    /\ hist = HistNone
    /\ InitHttp
    /\ InitFetch
    /\ agg = AggNone
    /\ auth = AuthNone
    /\ hasToken = TRUE
    /\ now = 10000

NextSession ==
    \/ \E X \in Collections, fail \in SaveFailures : SetMembers(X, fail)
    \/ ClearMembersCache
    \/ IsCacheFresh
    \/ GetMembers
    \/ \E c \in 1..MaxCalls, skipCache \in BOOLEAN : LoadMembersDataStart(c, skipCache)
    \/ \E c \in 1..MaxCalls, docs \in Collections, fail \in SaveFailures :
          GetDocsResolve(c, docs, fail)
    \/ \E c \in 1..MaxCalls : GetDocsReject(c)

SpecSession == InitSession /\ [][NextSession]_vars

(* Refreshes in flight at once, storage empty at first, no other operation *)
InitRace ==
    /\ members = <<>>
    /\ lastFetchTime = 0
    /\ denied = FALSE
    /\ ls = EmptyStorage
    /\ calls = [c \in 1..MaxRefreshes |-> Watched]
    /\ ev = EvNone
    /\ hist = HistNone
    /\ InitHttp
    /\ InitFetch
    /\ agg = AggNone
    /\ auth = AuthNone
    /\ hasToken = TRUE
    /\ now = 10000

NextRace ==
    \/ \E c \in 1..MaxRefreshes : LoadMembersDataStart(c, TRUE)
    \/ \E c \in 1..MaxRefreshes, docs \in Collections, fail \in SaveFailures :
          GetDocsResolve(c, docs, fail)
    \/ \E c \in 1..MaxRefreshes : GetDocsReject(c)

SpecRace == InitRace /\ [][NextRace]_vars

(* The HTTP client, the member cache untouched *)
InitHttpSpec ==
    /\ members = <<>>
    /\ lastFetchTime = 0
    /\ denied = FALSE
    /\ ls = EmptyStorage
    /\ calls = [c \in 1..MaxCalls |-> NoCall]
    /\ ev = EvNone
    /\ hist = HistNone
    /\ InitHttp
    /\ InitFetch
    /\ agg = AggNone
    /\ auth = AuthNone
    /\ hasToken \in BOOLEAN
    /\ now = 10000

NextHttp ==
    \/ \E p \in Procs : started < MaxApiCalls /\ ApiRequestStart(p)
    \/ \E p \in Procs : \E resp \in Responses(now) : ApiResponse(p, resp)
    \/ \E p \in Procs : ApiWake(p)
    \/ \E p \in Procs : ApiNetworkFailure(p)
    \/ \E p \in Procs : ApiRequestEnd(p)

SpecHttp == InitHttpSpec /\ [][NextHttp]_vars

(* Several githubApiRequest calls in flight at once, the server answering   *)
(* 200 or 429 without rate-limit headers                                    *)
WarnProcs == 1..MaxWarnProcs

WarnResponses ==
    { r \in Responses(now) :
        r.status \in {200, 429} /\ r.remaining = {} /\ r.reset = {} }

InitWarn ==
    /\ members = <<>>
    /\ lastFetchTime = 0
    /\ denied = FALSE
    /\ ls = EmptyStorage
    /\ calls = [c \in 1..MaxCalls |-> NoCall]
    /\ ev = EvNone
    /\ hist = HistNone
    /\ rateLimitReset = 0
    /\ rateLimitRemaining = {}
    /\ warningShown = FALSE
    /\ warnings = 0
    /\ started = 0
    /\ reqs = [p \in WarnProcs |-> NoReq]
    /\ hev = HevNone
    /\ InitFetch
    /\ agg = AggNone
    /\ auth = AuthNone
    /\ hasToken \in BOOLEAN
    /\ now = 10000

NextWarn ==
    \/ \E p \in WarnProcs : started < MaxWarnCalls /\ ApiRequestStart(p)
    \/ \E p \in WarnProcs : \E resp \in WarnResponses : ApiResponse(p, resp)
    \/ \E p \in WarnProcs : ApiWake(p)
    \/ \E p \in WarnProcs : ApiNetworkFailure(p)
    \/ \E p \in WarnProcs : ApiRequestEnd(p)

SpecWarn == InitWarn /\ [][NextWarn]_vars

(* A fetcher, one invocation at a time, the server answering each         *)
(* githubApiRequest with any status: fetchGitHubUserInfo                   *)
InitFetchSpec ==
    /\ members = <<>>
    /\ lastFetchTime = 0
    /\ denied = FALSE
    /\ ls = EmptyStorage
    /\ calls = [c \in 1..MaxCalls |-> NoCall]
    /\ ev = EvNone
    /\ hist = HistNone
    /\ InitHttp
    /\ InitFetch
    /\ agg = AggNone
    /\ auth = AuthNone
    /\ hasToken \in BOOLEAN
    /\ now = 10000

NextFetch ==
    \/ \E h \in Handles, useCache \in BOOLEAN : FetchGitHubUserInfo(h, useCache)
    \/ \E st \in Statuses, userData \in UserData : UserInfoResponse(st, userData)
    \/ UserInfoThrow
    \/ ClearGitHubCache

SpecFetch == InitFetchSpec /\ [][NextFetch]_vars

(* fetchUserRepositories *)
NextRepos ==
    \/ \E h \in Handles, limit \in RepoLimits : FetchUserRepositories(h, limit)
    \/ \E st \in Statuses, n \in PageSizes, link \in LinkHeaders :
          ReposResponse(st, n, link)
    \/ ReposThrow

SpecRepos == InitFetchSpec /\ [][NextRepos]_vars

\* the same, every request of fetchUserRepositories being answered or
\* failing in the end: the promise of githubApiRequest settles
SpecReposAnswered ==
    /\ SpecRepos
    /\ WF_vars(\/ \E st \in Statuses, n \in PageSizes, link \in LinkHeaders :
                    ReposResponse(st, n, link)
               \/ ReposThrow)

(* fetchRecentCommits *)
NextCommits ==
    \/ \E h \in Handles, limit \in CommitLimits : FetchRecentCommits(h, limit)
    \/ \E st \in Statuses, nrepos \in 0..MaxListing : CommitsListing(st, nrepos)
    \/ \E st \in Statuses, body \in CommitBodies : CommitsResponse(st, body)
    \/ CommitsThrow
    \/ CommitsListingThrow

SpecCommits == InitFetchSpec /\ [][NextCommits]_vars

(* fetchUserLanguages, listings that are short or reach the cap *)
NextUserLanguages ==
    \/ \E h \in Handles : FetchUserLanguages(h)
    \/ \E st \in Statuses, nrepos \in 0..2 \cup {MaxListing - 1, MaxListing} :
          LangsListing(st, nrepos)
    \/ \E st \in Statuses, body \in LangBodies : LangsResponse(st, body)
    \/ LangsThrow
    \/ LangsListingThrow

SpecUserLanguages == InitFetchSpec /\ [][NextUserLanguages]_vars

(* The five fetchers for one account, the default page limit, listings of  *)
(* at most two repositories                                                *)
NextFetchers ==
    \/ \E useCache \in BOOLEAN : FetchGitHubUserInfo(1, useCache)
    \/ \E st \in Statuses, userData \in UserData : UserInfoResponse(st, userData)
    \/ UserInfoThrow
    \/ FetchUserRepositories(1, 150)
    \/ \E st \in Statuses, n \in PageSizes, link \in LinkHeaders :
          ReposResponse(st, n, link)
    \/ ReposThrow
    \/ FetchRecentCommits(1, 2)
    \/ \E st \in Statuses, nrepos \in 0..2 : CommitsListing(st, nrepos)
    \/ \E st \in Statuses, body \in CommitBodies : CommitsResponse(st, body)
    \/ CommitsThrow
    \/ CommitsListingThrow
    \/ FetchUserLanguages(1)
    \/ \E st \in Statuses, nrepos \in 0..2 : LangsListing(st, nrepos)
    \/ \E st \in Statuses, body \in LangBodies : LangsResponse(st, body)
    \/ LangsThrow
    \/ LangsListingThrow
    \/ FetchUserPullRequests(1)

SpecFetchers == InitFetchSpec /\ [][NextFetchers]_vars

(* The aggregation functions, each applied to one input *)
InitAgg ==
    /\ members = <<>>
    /\ lastFetchTime = 0
    /\ denied = FALSE
    /\ ls = EmptyStorage
    /\ calls = [c \in 1..MaxCalls |-> NoCall]
    /\ ev = EvNone
    /\ hist = HistNone
    /\ InitHttp
    /\ InitFetch
    /\ hasToken = TRUE
    /\ now = 10000
    /\ agg \in TrendInputs(MaxTrendMembers, MaxDays) \cup RankInputs(MaxEdge)
                \cup RepoInputs(MaxRepoMembers)
    /\ auth = AuthNone

\* the server answers the profile request of getRepositoryData with a
\* profile, with 404 or with a server error, or the request fails
NextAgg ==
    \/ ApplyPRTrends
    \/ ApplyTopCommitters
    \/ ApplyTopContributors
    \/ ApplyTopPRCreators
    \/ ApplyActivityStats
    \/ GetRepositoryData
    \/ RepositoryDataResume
    \/ \E st \in {200, 404, 500}, userData \in { u \in UserData : u.bio = "text" } :
          UserInfoResponse(st, userData)
    \/ UserInfoThrow

SpecAgg == InitAgg /\ [][NextAgg]_vars

(* getLanguageData, applied to one input *)
InitLang ==
    /\ members = <<>>
    /\ lastFetchTime = 0
    /\ denied = FALSE
    /\ ls = EmptyStorage
    /\ calls = [c \in 1..MaxCalls |-> NoCall]
    /\ ev = EvNone
    /\ hist = HistNone
    /\ InitHttp
    /\ InitFetch
    /\ hasToken = TRUE
    /\ now = 10000
    /\ agg \in LanguageInputs(MaxLangItems)
    /\ auth = AuthNone

NextLang == ApplyLanguageData

SpecLang == InitLang /\ [][NextLang]_vars

(* The authentication module, ADMIN_EMAIL as some build left it, Firebase   *)
(* holding the session of an earlier visit or none                          *)
InitAuth ==
    /\ members = <<>>
    /\ lastFetchTime = 0
    /\ denied = FALSE
    /\ ls = EmptyStorage
    /\ calls = [c \in 1..MaxCalls |-> NoCall]
    /\ ev = EvNone
    /\ hist = HistNone
    /\ InitHttp
    /\ InitFetch
    /\ agg = AggNone
    /\ hasToken = TRUE
    /\ now = 10000
    /\ auth \in { [AuthNone EXCEPT !.adminEmail = a, !.session = u] :
                    a \in AdminEmails, u \in {NoUser} \cup Emails }

NextAuth ==
    \/ InitializeAuth
    \/ AuthStateChanged
    \/ ListenerChecked
    \/ \E ok \in BOOLEAN : ListenerSignedOut(ok)
    \/ \E email \in Emails : AdminLogin(email)
    \/ SignInResolves
    \/ SignInRejects
    \/ \E ok \in BOOLEAN : LoginSignedOut(ok)
    \/ \E ok \in BOOLEAN : AdminLogout(ok)
    \/ GetCurrentUser
    \/ \E email \in Emails : SessionSignIn(email)

SpecAuth == InitAuth /\ [][NextAuth]_vars

-----------------------------------------------------------------------------
(* Properties of the data store *)

LoadEvent == ev.op \in {"load", "getDocs"}

\* loadMembersData has just run up to its return on a cache hit or up to
\* await getDocs: hist is the operation that ran before the call
StartEvent == ev.op = "getDocs" \/ (ev.op = "load" /\ ~ev.queried)

\* C1: loadMembersData(false) called while both persisted keys exist returns
\* the deserialized persisted collection and never calls getDocs; called
\* while either key is absent it calls getDocs.
C1_CacheHitSkipsQuery ==
    /\ (LoadEvent /\ ~ev.skip /\ ev.hadKeys) =>
          /\ ev.op = "load"
          /\ ~ev.queried
          /\ ev.ret = RetArr(JSONparse(ls[CACHE_KEY].text))
    /\ (LoadEvent /\ ~ev.skip /\ ~ev.hadKeys) => ev.queried
    /\ \A c \in 1..MaxCalls :
          (calls[c].pc = "await" /\ ~calls[c].skip) => ~calls[c].hadKeys

C1_Witness ==
    /\ ev.op = "load" /\ ~ev.skip /\ ev.hadKeys /\ ~ev.queried
    /\ ev.ret.val # <<>>
    /\ ev.ret = RetArr(JSONparse(ls[CACHE_KEY].text))

\* C2: loadMembersData(true) calls getDocs in every cache state.
C2_ForceRefreshAlwaysQueries ==
    (LoadEvent /\ ev.skip) => ev.queried

C2_Witness ==
    ev.op = "getDocs" /\ ev.skip /\ ev.hadKeys /\ ev.queried /\ members # <<>>

\* C3 as stated: loadMembersData(false) run right after setMembers(X) returns
\* exactly X and does not call getDocs.
C3_LoadAfterSetReturnsX ==
    (StartEvent /\ ~ev.skip /\ hist.op = "set") =>
        (~ev.queried /\ ev.ret = RetArr(hist.arg))

JSONSafe(X) == \A i \in DOMAIN X : X[i].f = "plain"

\* C3 amended: when the storage write of setMembers(X) succeeded,
\* loadMembersData(false) run right after it does not call getDocs and returns
\* X as JSON.parse(JSON.stringify(X)) renders it, which is X when X holds
\* JSON-representable values only.
C3_LoadAfterSavedSet ==
    (StartEvent /\ ~ev.skip /\ hist.op = "set" /\ hist.ok) =>
        /\ ~ev.queried
        /\ ev.ret = RetArr(JSONparse(JSONstringify(hist.arg)))
        /\ JSONSafe(hist.arg) => ev.ret = RetArr(hist.arg)

C3_Witness ==
    /\ StartEvent /\ ~ev.skip /\ hist.op = "set" /\ hist.ok
    /\ Len(hist.arg) = MaxId
    /\ ev.ret = RetArr(hist.arg)

\* C4 as stated: the loadMembersData(false) that follows clearMembersCache()
\* calls getDocs and, when it completes, both persisted keys are populated.
C4_ClearThenLoadRepopulates ==
    /\ (LoadEvent /\ ~ev.skip /\ ev.pre = "clear") => ev.queried
    /\ (ev.op = "load" /\ ~ev.skip /\ ev.pre = "clear") => BothKeys(ls)

\* C4 amended: the loadMembersData(false) that follows clearMembersCache()
\* calls getDocs; when the query resolves and the storage write succeeds,
\* both keys hold the fetched collection again, and when the write fails
\* the keys are absent.
C4_ClearThenLoadRepopulatesOnSuccess ==
    /\ (LoadEvent /\ ~ev.skip /\ ev.pre = "clear") => ev.queried
    /\ (ev.op = "load" /\ ~ev.skip /\ ev.pre = "clear" /\ ~ev.qfailed) =>
          IF ev.saveOk
          THEN /\ BothKeys(ls)
               /\ ls[CACHE_KEY] = Item(JSONstringify(ev.ret.val))
               /\ members = ev.ret.val
          ELSE ~BothKeys(ls)

C4_Witness ==
    /\ ev.op = "load" /\ ~ev.skip /\ ev.pre = "clear" /\ ev.queried
    /\ ~ev.qfailed /\ ev.saveOk /\ BothKeys(ls) /\ members # <<>>

\* C5: when getDocs fails, loadMembersData returns the persisted copy if
\* both keys exist, and otherwise returns an empty collection and empties
\* the in-memory collection; it does not throw.
C5_QueryFailureFallsBack ==
    (ev.op = "load" /\ ev.qfailed) =>
        /\ ev.ret.kind = "array"
        /\ IF BothKeys(ls)
           THEN /\ ev.ret = RetArr(JSONparse(ls[CACHE_KEY].text))
                /\ members = ev.ret.val
           ELSE /\ ev.ret = RetArr(<<>>)
                /\ members = <<>>

C5_Witness ==
    ev.op = "load" /\ ev.qfailed /\ BothKeys(ls) /\ ev.ret.val # <<>>

\* C6: no public entry point lets an exception reach its caller.
C6_NoExceptionEscapes ==
    ev.ret.kind # "throw"

\* C7 as stated: when the storage write fails in setMembers or
\* loadMembersData the failure is logged, both keys are cleared and the
\* in-memory collection is empty.
C7_WriteFailureEmptiesMemory ==
    (ev.op \in {"set", "load"} /\ ~ev.saveOk) =>
        /\ "Error saving to cache" \in ev.logs
        /\ ~ls[CACHE_KEY].has /\ ~ls[CACHE_TIMESTAMP_KEY].has
        /\ members = <<>>

\* C7 amended: when the storage write fails in setMembers or loadMembersData
\* the failure is logged, both keys are absent afterwards (a removal that
\* throws is logged too), and the in-memory collection is the new
\* collection (the one passed to setMembers, the one fetched and returned by
\* loadMembersData).
C7_WriteFailureKeepsMemory ==
    (ev.op \in {"set", "load"} /\ ~ev.saveOk) =>
        /\ "Error saving to cache" \in ev.logs
        /\ denied => "Could not clear cache" \in ev.logs
        /\ ~ls[CACHE_KEY].has /\ ~ls[CACHE_TIMESTAMP_KEY].has
        /\ ev.op = "set" => members = hist.arg
        /\ ev.op = "load" => (ev.ret = RetArr(members) /\ ev.queried /\ ~ev.qfailed)

C7_Witness ==
    /\ ev.op = "load" /\ ~ev.saveOk /\ ~denied /\ ev.hadKeys
    /\ members # <<>> /\ ~ls[CACHE_KEY].has

-----------------------------------------------------------------------------
(* Properties of the HTTP client *)

\* C8: one githubApiRequest call with the default maxRetries issues at most
\* 3 requests, and when all 3 responses are throttled it returns the third
\* response as it is, without throwing.
C8_AtMostThreeRequests ==
    \A p \in Procs :
        /\ reqs[p].nreq <= 3
        /\ reqs[p].pc # "tail"
        /\ (reqs[p].pc = "done" /\ reqs[p].nthrottled = 3) =>
              /\ ~reqs[p].threw
              /\ reqs[p].nreq = 3
              /\ reqs[p].ret = reqs[p].resp
              /\ Throttled(reqs[p].ret)

C8_Witness ==
    \E p \in Procs :
        /\ reqs[p].pc = "done" /\ reqs[p].nthrottled = 3 /\ reqs[p].nreq = 3
        /\ reqs[p].ret.status = 403

\* C9: a response that is neither a 429 nor a 403 with zero remaining quota
\* is returned at once: no suspension follows it and no further request is
\* issued, so a call whose first response is such a response issues exactly
\* one request.
C9_OtherStatusReturnsAtOnce ==
    \A p \in Procs :
        /\ reqs[p].pc = "wait" => Throttled(reqs[p].resp)
        /\ (reqs[p].pc \in {"fetch", "tail"} /\ reqs[p].nreq > 1) =>
              Throttled(reqs[p].resp)
        /\ (reqs[p].pc = "done" /\ ~reqs[p].threw /\ ~Throttled(reqs[p].resp)) =>
              /\ reqs[p].ret = reqs[p].resp
              /\ reqs[p].nreq = reqs[p].nthrottled + 1
              /\ reqs[p].nsusp = reqs[p].nthrottled
              /\ reqs[p].nthrottled = 0 => (reqs[p].nreq = 1 /\ reqs[p].nsusp = 0)

C9_Witness ==
    \E p \in Procs :
        /\ reqs[p].pc = "done" /\ reqs[p].ret.status = 403
        /\ reqs[p].ret.remaining = {"5"}
        /\ reqs[p].nreq = 1 /\ reqs[p].nsusp = 0

\* C10: the wait of a suspension is computed from the reset header of the
\* throttled response itself, and is 60 seconds when that response carries
\* no reset header, whatever earlier responses carried.
C10_WaitFromOwnResetHeader ==
    hev.op = "suspend" =>
        LET resp == reqs[hev.p].resp IN
        hev.waitTime =
            IF resp.reset = {} THEN 60000
            ELSE Max(0, (CHOOSE x \in resp.reset : TRUE) * 1000 - now + 1000)

\* C11: a 429 response whose X-RateLimit-Reset is five seconds ahead,
\* followed by a response that is not throttled: the call suspends for the
\* five seconds to the reset time plus the one second margin (6000 ms), the
\* second request is issued only after that suspension, no third request is
\* issued, and the second response is what the call returns.
C11_ThrottledOnceThenAnswered ==
    \A p \in Procs :
        LET r == reqs[p]
            five == r.resp.status = 429 /\ r.nthrottled = 1
                    /\ r.resp.reset # {}
        IN
        /\ (hev.op = "suspend" /\ hev.p = p /\ five
              /\ r.resp.reset = {(now \div 1000) + 5} /\ now % 1000 = 0) =>
              /\ hev.waitTime = 6000
              /\ r.wake = now + 6000
              /\ r.retry
              /\ r.nreq = 1
        /\ (r.pc = "fetch" /\ r.nreq = 2 /\ five) =>
              /\ now >= (CHOOSE x \in r.resp.reset : TRUE) * 1000 + 1000
              /\ r.nsusp = 1
        /\ (r.pc = "done" /\ ~r.threw /\ r.nthrottled = 1 /\ ~Throttled(r.resp)) =>
              /\ r.nreq = 2
              /\ r.nsusp = 1
              /\ r.ret = r.resp

C11_Witness ==
    \E p \in Procs :
        /\ reqs[p].pc = "done" /\ ~reqs[p].threw
        /\ reqs[p].nthrottled = 1 /\ reqs[p].nreq = 2 /\ reqs[p].nsusp = 1
        /\ reqs[p].ret.status = 200
        /\ now = 16000

\* C12: with no token configured the missing-token warning is logged by the
\* first githubApiRequest call and by no later one, however many calls are
\* made and however they overlap; with a token it is never logged.
C12_WarningOnceOnFirstCall ==
    /\ warnings <= 1
    /\ started = 0 => warnings = 0
    /\ hasToken => warnings = 0
    /\ (~hasToken /\ started >= 1) => (warnings = 1 /\ warningShown)

C12_Witness ==
    /\ ~hasToken /\ started >= 2 /\ warnings = 1
    /\ \E p, q \in WarnProcs :
          p # q /\ reqs[p].pc = "fetch" /\ reqs[q].pc = "fetch"

-----------------------------------------------------------------------------
(* Properties of the fetchers *)

\* C13: fetchGitHubUserInfo(h) with the default useCache issues a request
\* only while no profile response for h has been stored since the last
\* clearGitHubCache; after a 404 for h it returns null without a request,
\* after a successful fetch it returns the stored profile without a
\* request, and clearGitHubCache empties the cache.
C13_CachedResultShortCircuits ==
    /\ (fev.fn = "user" /\ fev.op = "request" /\ fev.useCache) =>
          known[fev.h] = CacheUndefined
    /\ (fev.fn = "user" /\ fev.op = "return" /\ fev.nreq = 0) =>
          /\ fev.useCache
          /\ known[fev.h] # CacheUndefined
          /\ fev.ret = FetchInfo(known[fev.h])
    /\ (fev.fn = "user" /\ fev.op = "return" /\ fev.status = 404) =>
          /\ fev.ret = FetchNull
          /\ githubUserCache[fev.h] = CacheNull
    /\ (fev.fn = "user" /\ fev.op = "return" /\ fev.status = 200) =>
          /\ fev.ret.kind = "profile"
          /\ githubUserCache[fev.h] = fev.ret.info
    /\ fev.op = "clear" => githubUserCache = EmptyCache

C13_Witness ==
    /\ fev.fn = "user" /\ fev.op = "return" /\ fev.nreq = 0
    /\ known[fev.h] = CacheNull
    /\ fev.ret = FetchNull
    /\ \E h \in Handles : known[h].kind = "profile"

\* the pages 1..k in order, every page but the last taken whole
InPageOrder(list) ==
    \A i \in 1..Len(list) :
        /\ list[i].page = i
        /\ list[i].taken >= 1 /\ list[i].taken <= PerPage
        /\ i < Len(list) => list[i].taken = PerPage

\* C14: fetchUserRepositories asks for pages of 100 and, after a page read
\* successfully, asks for the next page exactly when the page had 100 items,
\* its Link header was absent or carried rel="next", and fewer than limit
\* items are collected; a 403 or 429 on a page returns the items of the
\* earlier pages; the list never has more than limit items and holds the
\* pages in order, each in its own order.
C14_PaginationStops ==
    /\ (fc.fn = "repos" /\ fc.pc = "await") =>
          /\ fc.page = Len(fc.repos) + 1
          /\ fc.nreq = fc.page
          /\ InPageOrder(fc.repos)
          /\ \A i \in 1..Len(fc.repos) : fc.repos[i].taken = PerPage
          /\ RepoCount(fc.repos) < fc.limit
    /\ (fev.fn = "repos" /\ fev.status = 200) =>
          (fev.op = "page" <=>
              /\ fev.n = PerPage
              /\ fev.link # "last"
              /\ RepoCount(fev.had) + fev.n < fev.limit)
    /\ (fev.fn = "repos" /\ fev.op = "return" /\ fev.status = 200) =>
          /\ fev.n = 0 => fev.ret.repos = fev.had
          /\ fev.n > 0 =>
                /\ Len(fev.ret.repos) = Len(fev.had) + 1
                /\ SubSeq(fev.ret.repos, 1, Len(fev.had)) = fev.had
                /\ fev.ret.repos[Len(fev.ret.repos)].taken =
                      Min(fev.n, fev.limit - RepoCount(fev.had))
    /\ (fev.fn = "repos" /\ fev.op = "return" /\ fev.status \in {403, 429}) =>
          fev.ret.repos = fev.had
    /\ (fev.fn = "repos" /\ fev.op = "return") =>
          /\ RepoCount(fev.ret.repos) <= Max(0, fev.limit)
          /\ InPageOrder(fev.ret.repos)

C14_Witness ==
    /\ fev.fn = "repos" /\ fev.op = "return" /\ fev.status = 429
    /\ RepoCount(fev.ret.repos) = 2 * PerPage
    /\ fev.limit = 250

\* how often d occurs in list
RECURSIVE Occurrences(_, _)
Occurrences(list, d) ==
    IF list = <<>> THEN 0
    ELSE (IF Head(list) = d THEN 1 ELSE 0) + Occurrences(Tail(list), d)

\* C16: fetchRecentCommits asks for the commits of at most the first 10
\* repositories of the listing, asks for no repository once limit commits
\* are collected, and returns the commits it collected ordered by
\* non-increasing author date, at most limit of them.
C16_RecentCommits ==
    /\ (fc.fn = "commits" /\ fc.pc = "commits") =>
          /\ fc.idx <= MaxCommitRepos
          /\ fc.idx <= fc.nrepos
          /\ fc.nreq = fc.idx + 1
          /\ Len(fc.commits) < fc.limit
    /\ (fev.fn = "commits" /\ fev.op = "return") =>
          /\ fev.nreq <= MaxCommitRepos + 1
          /\ Len(fev.ret.commits) <= fev.limit
          /\ \A i \in 1..(Len(fev.ret.commits) - 1) :
                fev.ret.commits[i] >= fev.ret.commits[i + 1]
          /\ \A d \in Dates :
                Occurrences(fev.ret.commits, d) = Occurrences(fev.collected, d)

C16_Witness ==
    /\ fev.fn = "commits" /\ fev.op = "return"
    /\ fev.nreq = MaxCommitRepos + 1
    /\ fev.n > MaxCommitRepos
    /\ fev.collected = <<1, 2>>
    /\ fev.ret.commits = <<2, 1>>
    /\ fev.limit = 3

\* null, [] or {}
EmptyResult(ret) ==
    \/ ret = FetchNull
    \/ ret = FetchRepos(<<>>)
    \/ ret = FetchCommits(<<>>)
    \/ ret = FetchLangs(NoBytes)
    \/ ret = FetchPRs

\* C15 as stated: without a token every fetcher returns its empty result,
\* and every fetcher returns its empty result when a request of it fails.
C15_EmptyWithoutCredential ==
    fev.op = "return" =>
        /\ ~hasToken => EmptyResult(fev.ret)
        /\ (fev.nreq >= 1 /\ fev.status # 200) => EmptyResult(fev.ret)

\* C15, amended: without a token fetchRecentCommits, fetchUserLanguages and
\* fetchUserPullRequests return their empty result and issue no request,
\* while fetchGitHubUserInfo and fetchUserRepositories are the only fetchers
\* that issue requests then; every fetcher returns a value (never throws),
\* and returns its empty result when its first request fails.
C15_DegradesToEmpty ==
    /\ ~hasToken => fc.fn \in {"none", "user", "repos"}
    /\ fev.op = "return" =>
          /\ fev.ret.kind \in {"null", "profile", "repos", "commits", "langs", "prs"}
          /\ (~hasToken /\ fev.fn \in {"commits", "langs", "prs"}) =>
                (EmptyResult(fev.ret) /\ fev.nreq = 0)
          /\ (fev.nreq = 1 /\ fev.status # 200) => EmptyResult(fev.ret)
          /\ fev.fn = "prs" => (EmptyResult(fev.ret) /\ fev.nreq = 0)

C15_Witness ==
    /\ ~hasToken
    /\ fev.op = "return" /\ fev.fn = "user"
    /\ fev.ret.kind = "profile" /\ fev.nreq = 1

\* C24: fetchUserLanguages asks for the languages of at most the first 20
\* repositories of the listing, returns for each language the sum of the
\* bytes over the repositories read, and after the first 403 or 429 language
\* response makes no request and returns the sums it has.
C24_LanguageSums ==
    /\ (fc.fn = "langs" /\ fc.pc = "langs") =>
          /\ fc.idx <= MaxLangRepos /\ fc.idx <= fc.nrepos
          /\ fc.nreq = fc.idx + 1
          /\ fev.status \notin {403, 429}
    /\ (fev.fn = "langs" /\ fev.op = "return" /\ fev.nreq > 0) =>
          /\ fev.nreq <= MaxLangRepos + 1
          /\ fev.ret.kind = "langs"
          /\ \A k \in LangKeys :
                fev.ret.bytes[k] = IF k = " " THEN 0 ELSE fev.seen[k]
          /\ (fev.nreq > 1 /\ fev.status \notin {403, 429}) =>
                fev.nreq = Min(MaxLangRepos, fev.n) + 1

C24_Witness ==
    /\ fev.fn = "langs" /\ fev.op = "return"
    /\ fev.n > MaxLangRepos
    /\ fev.status = 429
    /\ fev.nreq = 4
    /\ fev.seen = [k \in LangKeys |-> 2]
    /\ fev.ret.bytes["JS"] = 2

-----------------------------------------------------------------------------
(* Properties of the aggregation functions *)

\* the members whose fallback getRepositoryData has to take
Incomplete(ms) ==
    { k \in 1..Len(ms) :
        /\ ms[k].githubConnected /\ ms[k].githubUsername # 0
        /\ ~ms[k].hasActivity \/ ms[k].publicRepos \in {Undefined, Null, 0} }

C18_EvenDistribution ==
    (agg.fn = "trend" /\ agg.pc = "done" /\ ~HasTimestamps(agg.members)) =>
        LET C == TotalPRs(agg.members)
            D == agg.days
        IN /\ Len(agg.buckets) = D
           /\ SumSeq(agg.buckets) = C
           /\ \A i \in 1..D :
                 /\ agg.buckets[i] \in {C \div D, (C \div D) + 1}
                 /\ agg.buckets[i] = (C \div D) + 1 <=> i <= C % D

C18_Witness ==
    /\ agg.fn = "trend" /\ agg.pc = "done" /\ ~HasTimestamps(agg.members)
    /\ agg.days = 3
    /\ agg.buckets = <<2, 2, 1>>

\* the items created on the calendar day i, from its local midnight to the
\* next local midnight
RECURSIVE ItemsOfDay(_, _, _)
ItemsOfDay(stamps, lens, i) ==
    IF stamps = <<>> THEN 0
    ELSE (IF Head(stamps) # InvalidDate
             /\ Head(stamps) >= DayStart(lens, i)
             /\ Head(stamps) < DayStart(lens, i + 1)
          THEN 1 ELSE 0)
         + ItemsOfDay(Tail(stamps), lens, i)

\* C19: getPRTrendsData uses the even distribution exactly when no member
\* has a non-empty recentPRs list; otherwise the bucket of each day counts
\* the items created on that calendar day, from local midnight to the next
\* local midnight, and the pullRequests counts are not used.
C19_BucketsByCalendarDay ==
    (agg.fn = "trend" /\ agg.pc = "done") =>
        IF \E k \in 1..Len(agg.members) :
              agg.members[k].hasActivity /\ agg.members[k].recentPRs # <<>>
        THEN \A i \in 1..agg.days :
                agg.buckets[i] = ItemsOfDay(AllRecentPRs(agg.members), agg.lens, i)
        ELSE agg.buckets =
                [i \in 1..agg.days |->
                    (TotalPRs(agg.members) \div agg.days)
                    + (IF i <= TotalPRs(agg.members) % agg.days THEN 1 ELSE 0)]

\* the members of which the ranked field is neither undefined nor null
HasDefinedValue(fn, m) == m.hasActivity /\ Defined(RankedField(fn, m))

\* display name, else trimmed first and last name, else "Unknown"
NameResolved(m, name) ==
    IF m.displayName # <<>> THEN name = m.displayName
    ELSE LET full == m.firstName \o <<Blank>> \o m.lastName
             letters == { i \in 1..Len(full) : full[i] # Blank }
         IN IF letters = {} THEN name = Unknown
            ELSE /\ name # <<>>
                 /\ name[1] # Blank /\ name[Len(name)] # Blank
                 /\ \E lead \in 0..Len(full) :
                       name = SubSeq(full, lead + 1, lead + Len(name))

\* the ranking holds the members of Q by non-increasing value, members of
\* equal value in the order of the input, cut to the first 10
RankingOf(Q) ==
    LET r == agg.ranking
        ms == agg.members
    IN /\ Len(r) = Min(Cardinality(Q), TopN)
       /\ \A i \in 1..Len(r) :
             /\ r[i].idx \in Q
             /\ r[i].value = OrZero(RankedField(agg.fn, ms[r[i].idx]))
             /\ NameResolved(ms[r[i].idx], r[i].name)
       /\ \A i, j \in 1..Len(r) :
             i < j => \/ r[i].value > r[j].value
                      \/ r[i].value = r[j].value /\ r[i].idx < r[j].idx
       /\ \A k \in Q :
             (\A i \in 1..Len(r) : r[i].idx # k) =>
                \A i \in 1..Len(r) :
                    \/ r[i].value > OrZero(RankedField(agg.fn, ms[k]))
                    \/ /\ r[i].value = OrZero(RankedField(agg.fn, ms[k]))
                       /\ r[i].idx < k

\* C20 as stated: every ranking holds exactly the members with a defined
\* value of the ranked field, by non-increasing value, equal values in their
\* original order, cut to the first 10, names resolved as display name,
\* else trimmed first and last name, else "Unknown".
C20_RankingOfDefinedValues ==
    (agg.fn \in RankingFns /\ agg.pc = "done") =>
        RankingOf({ k \in 1..Len(agg.members) :
                      HasDefinedValue(agg.fn, agg.members[k]) })

\* C20, amended: as stated for top committers and top contributors; top PR
\* creators holds the members of which pullRequests, mergedPRs or openPRs
\* is a non-zero count, ranked by pullRequests || 0.
C20_Ranking ==
    (agg.fn \in RankingFns /\ agg.pc = "done") =>
        RankingOf({ k \in 1..Len(agg.members) :
                      IF agg.fn = "prCreators"
                      THEN /\ agg.members[k].hasActivity
                           /\ \/ TruthyCount(agg.members[k].pullRequests)
                              \/ TruthyCount(agg.members[k].mergedPRs)
                              \/ TruthyCount(agg.members[k].openPRs)
                      ELSE HasDefinedValue(agg.fn, agg.members[k]) })

C20_Witness ==
    /\ agg.fn = "prCreators" /\ agg.pc = "done"
    /\ Len(agg.members) = TopN + 2
    /\ agg.members[1].pullRequests = 0 /\ agg.members[1].mergedPRs = 1
    /\ agg.members[TopN + 2].pullRequests = 2
    /\ Len(agg.ranking) = TopN
    /\ agg.ranking[1].idx = TopN + 2
    /\ \A i \in 1..TopN : agg.ranking[i].idx # 1

\* the labels and data getLanguageData returned
LanguagesFiltered ==
    \A i \in 1..Len(agg.ranking) :
        /\ agg.ranking[i].name \notin {<<>>, Unknown, NullName}
        /\ agg.ranking[i].value > 0

\* C21: the distribution getLanguageData returns never holds the keys "",
\* "Unknown" or "null" nor a count that is not positive, whether a member's
\* languages are an object or an array; {JS: 500, Unknown: 10, Go: 0}
\* yields exactly {JS: 500}.
C21_LanguageKeysFiltered ==
    (agg.fn = "languages" /\ agg.pc = "done") =>
        /\ LanguagesFiltered
        /\ (Len(agg.members) = 1 /\ agg.members[1].hasActivity
              /\ agg.members[1].languages = ExampleLanguages) =>
                 /\ Len(agg.ranking) = 1
                 /\ agg.ranking[1].name = <<"JS">>
                 /\ agg.ranking[1].value = 500

\* The same for members whose languages are objects: there it holds.
LanguageKeysFilteredInObjectForm ==
    (/\ agg.fn = "languages" /\ agg.pc = "done"
     /\ \A k \in 1..Len(agg.members) : agg.members[k].languages.form # "array")
        => C21_LanguageKeysFiltered

\* The same without the key "null": it holds in both forms.
LanguageKeysFilteredButNull ==
    (agg.fn = "languages" /\ agg.pc = "done") =>
        \A i \in 1..Len(agg.ranking) :
            /\ agg.ranking[i].name \notin {<<>>, Unknown}
            /\ agg.ranking[i].value > 0

-----------------------------------------------------------------------------
(* Properties of the data store: concurrent refreshes *)

\* no loadMembersData is awaiting its query, and the one that completed
\* last was a refresh whose query resolved
RefreshesComplete ==
    /\ \A c \in DOMAIN calls : calls[c].pc = "idle"
    /\ ev.op = "load" /\ ev.skip /\ ev.queried /\ ~ev.qfailed

\* C22 as stated: once the refreshes in flight have completed, the in-memory
\* collection and the persisted collection are the result of the refresh
\* whose query resolved last, whichever refresh started first.
C22_LastWriteWins ==
    RefreshesComplete =>
        /\ members = ev.ret.val
        /\ ls[CACHE_KEY].has /\ ls[CACHE_TIMESTAMP_KEY].has
        /\ JSONparse(ls[CACHE_KEY].text) = ev.ret.val

\* C22, amended: the in-memory collection is the result of the refresh whose
\* query resolved last, whichever started first; when the storage write of
\* that refresh succeeded the persisted collection is its result as
\* JSON.stringify renders it (the result itself when it holds
\* JSON-representable values only), and when that write failed both keys
\* are absent, whatever the refresh that resolved earlier had persisted.
C22_LastResolvedWins ==
    RefreshesComplete =>
        /\ members = ev.ret.val
        /\ IF ev.saveOk
           THEN /\ ls[CACHE_KEY] = Item(JSONstringify(ev.ret.val))
                /\ ls[CACHE_TIMESTAMP_KEY].has
                /\ JSONSafe(ev.ret.val) => JSONparse(ls[CACHE_KEY].text) = ev.ret.val
           ELSE ~ls[CACHE_KEY].has /\ ~ls[CACHE_TIMESTAMP_KEY].has

\* the refresh that started first resolved last, and the other resolved
\* with another collection while the first was in flight
C22_Witness ==
    /\ RefreshesComplete
    /\ ev.alone /\ ev.overtaken
    /\ ev.saveOk /\ ev.ret.val = <<>>
    /\ members = <<>>
    /\ ls[CACHE_KEY] = Item(JSONstringify(<<>>))

-----------------------------------------------------------------------------
(* Properties of the authentication module *)

\* C23: while ADMIN_EMAIL is the placeholder or empty, no sequence of
\* adminLogin calls and auth state changes makes getCurrentUser() return a
\* user or has onAuthenticated called.
C23_DeniedWhenUnconfigured ==
    (\/ auth.adminEmail = Placeholder
     \/ auth.adminEmail = <<>>
     \/ auth.adminEmail = <<Blank>>) =>
        /\ auth.currentUser = NoUser
        /\ auth.got = NoUser
        /\ "onAuthenticated" \notin auth.called
        /\ auth.ret # "user"

\* with the placeholder left in and the administrator's session in
\* Firebase, adminLogin has thrown and the listener has refused the session
C23_Witness ==
    /\ auth.adminEmail = Placeholder
    /\ auth.attempts = 1 /\ auth.ret = "throw"
    /\ auth.denials = 1 /\ auth.lisUser = AdminAddress
    /\ "onUnauthenticated" \in auth.called
    /\ auth.session = NoUser

-----------------------------------------------------------------------------
(* Properties of the data store: the persisted keys *)

\* C25: on a page that found neither key, after any sequence of
\* loadMembersData, setMembers and clearMembersCache operations, storage
\* writes failing part-way included, the two persisted keys are both present
\* or both absent.
C25_KeysTogether ==
    ls[CACHE_KEY].has = ls[CACHE_TIMESTAMP_KEY].has

\* a write has failed after both keys had been written by an earlier
\* operation, and the keys are gone
C25_Witness ==
    /\ ~denied
    /\ ev.op = "load" /\ ev.queried /\ ~ev.qfailed /\ ev.hadKeys
    /\ ~ev.saveOk /\ "Error saving to cache" \in ev.logs
    /\ members # <<>>
    /\ ~ls[CACHE_KEY].has /\ ~ls[CACHE_TIMESTAMP_KEY].has

\* a loadMembersData or setMembers has completed and no storage access
\* threw in it
CompletedWithoutStorageFailure ==
    /\ ev.op \in {"load", "set"}
    /\ ev.saveOk /\ ~denied

\* C26 as stated: whenever loadMembersData or setMembers completes without
\* a storage failure, the persisted collection, deserialized, is the
\* in-memory collection.
C26_PersistedEqualsMemory ==
    CompletedWithoutStorageFailure =>
        /\ BothKeys(ls)
        /\ JSONparse(ls[CACHE_KEY].text) = members

\* C26, amended: whenever loadMembersData or setMembers completes without a
\* storage failure, the persisted collection is the in-memory collection as
\* JSON.stringify renders it, so that deserialized it is the in-memory
\* collection when that holds JSON-representable values only (as it does
\* after a cache hit and on the fall-back path); except that after a failed
\* query that finds no persisted copy the in-memory collection is empty and
\* no collection is persisted.
C26_PersistedRendersMemory ==
    CompletedWithoutStorageFailure =>
        IF BothKeys(ls)
        THEN /\ ls[CACHE_KEY].text = JSONstringify(members)
             /\ JSONSafe(members) => JSONparse(ls[CACHE_KEY].text) = members
             /\ (ev.op = "load" /\ (~ev.queried \/ ev.qfailed)) =>
                   JSONparse(ls[CACHE_KEY].text) = members
        ELSE ev.op = "load" /\ ev.qfailed /\ members = <<>>

\* the fall-back path: the query failed and the persisted copy was loaded
C26_Witness ==
    /\ CompletedWithoutStorageFailure
    /\ ev.op = "load" /\ ev.qfailed /\ BothKeys(ls)
    /\ Len(members) = MaxId
    /\ JSONparse(ls[CACHE_KEY].text) = members
    /\ ev.ret = RetArr(members)

\* C27: clearMembersCache() removes the two persisted keys and nothing else:
\* getMembers() and getMemberById() answer after it as before it, and
\* isCacheFresh() called next returns false.
C27_ClearLeavesMemory ==
    [][ /\ ev'.op = "clear" =>
            /\ members' = members /\ lastFetchTime' = lastFetchTime
            /\ ls' = RemoveBoth(ls)
        /\ (ev'.op = "isCacheFresh" /\ ev.op = "clear") =>
            ev'.ret = RetBool(FALSE)
      ]_vars

\* The same where the page may use its storage: there it holds.
ClearLeavesMemoryWhereStorageWorks ==
    [][ ~denied =>
        /\ ev'.op = "clear" =>
            /\ members' = members /\ lastFetchTime' = lastFetchTime
            /\ ls' = RemoveBoth(ls)
        /\ (ev'.op = "isCacheFresh" /\ ev.op = "clear") =>
            ev'.ret = RetBool(FALSE)
      ]_vars

-----------------------------------------------------------------------------
(* Properties of fetchUserRepositories and githubApiRequest: failures and   *)
(* termination                                                              *)

\* C28: in fetchUserRepositories a failure status other than 404, 403 and
\* 429 (a 500, say) discards the items collected from the earlier pages and
\* returns the empty list, whereas a 404, 403 or 429 returns the items
\* collected so far.
C28_OtherFailureDiscards ==
    (fev.fn = "repos" /\ fev.op = "return" /\ fev.status \notin {0, 200}) =>
        /\ fev.status \in {404, 403, 429} => fev.ret = FetchRepos(fev.had)
        /\ fev.status \notin {404, 403, 429} => fev.ret = FetchRepos(<<>>)

\* a 500 on the third page: two pages are discarded
C28_Witness ==
    /\ fev.fn = "repos" /\ fev.op = "return" /\ fev.status = 500
    /\ RepoCount(fev.had) = 2 * PerPage /\ fev.nreq = 3
    /\ fev.ret = FetchRepos(<<>>)

\* C29: fetchUserRepositories ends after at most limit page iterations:
\* every iteration that is followed by another one has added at least one
\* item, fewer than limit items are collected when a page is requested, and
\* every call returns once its requests are answered, also from a server
\* that answers every request with a full page and a next link.
C29_PagingTerminates ==
    /\ [](/\ (fc.fn = "repos" /\ fc.pc = "await") =>
                /\ fc.nreq <= fc.limit
                /\ RepoCount(fc.repos) >= fc.nreq - 1
                /\ RepoCount(fc.repos) < fc.limit
          /\ (fev.fn = "repos" /\ fev.op = "return") =>
                fev.nreq <= Max(0, fev.limit))
    /\ [][(fev'.fn = "repos" /\ fev'.op = "page") =>
             RepoCount(fc'.repos) > RepoCount(fc.repos)]_vars
    /\ (fc.fn = "repos" /\ fc.pc = "await") ~> (fc.pc = "idle")

\* full pages with a next link all the way: the loop ends at the limit
C29_Witness ==
    /\ fev.fn = "repos" /\ fev.op = "return" /\ fev.status = 200
    /\ fev.n = PerPage /\ fev.link = "next"
    /\ fev.limit = 250 /\ fev.nreq = 3
    /\ RepoCount(fev.ret.repos) = fev.limit

\* C30: in githubApiRequest the suspensions are as many as the throttled
\* responses, not as many as the retries: when all 3 responses are
\* throttled the call suspends after the third one too and then returns it
\* without a fourth request, and the fetch after the loop is never reached
\* with the default maxRetries.
C30_SuspensionsEqualThrottled ==
    \A p \in Procs :
        LET r == reqs[p] IN
        /\ r.nsusp = r.nthrottled
        /\ r.pc # "tail"
        /\ r.pc \in {"fetch", "wait", "done"} =>
              /\ r.nreq = r.attempt + 1
              /\ r.nreq <= DefaultMaxRetries
        /\ r.pc = "fetch" => r.nsusp = r.nreq - 1
        /\ r.pc = "wait" => (r.nsusp = r.nreq /\ Throttled(r.resp))
        /\ (r.pc = "wait" /\ r.nreq = DefaultMaxRetries) => ~r.retry
        /\ (r.pc = "done" /\ ~r.threw /\ Throttled(r.resp)) =>
              /\ r.nsusp = DefaultMaxRetries
              /\ r.nreq = DefaultMaxRetries
              /\ r.ret = r.resp

\* three throttled responses, three suspensions, two retries
C30_Witness ==
    \E p \in Procs :
        /\ reqs[p].pc = "done" /\ ~reqs[p].threw
        /\ reqs[p].nsusp = 3 /\ reqs[p].nreq = 3
        /\ reqs[p].ret.status = 429

====
